---- MODULE Spec2Model ----
(***************************************************************************)
(* Hospital inventory: the Asset / HospitalAsset entities, the             *)
(* AssetRepository (in-memory Map plus a localStorage snapshot) and the    *)
(* asset store (working set, loading/error flags, derived statistics).     *)
(*                                                                         *)
(* JavaScript values are tagged records: Undef, Null, Num(n), NaN, Str(s), *)
(* Date(ms).  A string is the sequence of its one-character strings, so    *)
(* length, trim and the serial-number pattern are computed on characters.  *)
(* A number is kept in halves (field h), so that one non-integer number    *)
(* exists (Half(n) is n + 1/2) and Number.isInteger can answer false.      *)
(***************************************************************************)
EXTENDS Integers, Sequences, FiniteSets, TLC

VARIABLES
    heap,          \* the entity objects: reference -> entity, NoEntity when not yet constructed
    storage,       \* Repository.storage, a Map in insertion order: sequence of [key, ref]
    localStorage,  \* the entry under STORAGE_KEY: Null when absent, else the written JSON array
    assets,        \* the store's working set: sequence of references
    loading,       \* the store's loading flag
    error,         \* the store's error: Null or Str(message)
    activeFilter,  \* 'all' | 'critical' | 'lowStock'
    searchQuery,   \* the store's search text
    selectedCategory, \* Null or a category
    sortBy,        \* 'name' | 'quantity' | 'category'
    sortDirection, \* 'asc' | 'desc'
    last,          \* the operation that completed last, its arguments and what it returned
    mutations,     \* number of direct field mutations made so far
    calls          \* the store calls suspended at an await: sequence of [op, ...] records

vars == <<heap, storage, localStorage, assets, loading, error,
          activeFilter, searchQuery, selectedCategory, sortBy, sortDirection,
          last, mutations, calls>>

(***************************************************************************)
(* Bounds of the model.                                                    *)
(***************************************************************************)
MaxEntities == 2    \* entity objects constructed in one behaviour
MaxSets == 1        \* direct field mutations of the entity under SpecModel
MaxAssets == 2      \* length the working set may reach
MaxRepoEntities == 3 \* entity objects of the repository's callers
MaxViewAssets == 2   \* length of the working set under SpecView
SampleCount == 1    \* sample assets loadAssets generates (500 in the source)

(***************************************************************************)
(* JavaScript values.                                                      *)
(***************************************************************************)
Undef == [t |-> "undefined"]
Null == [t |-> "null"]
NaN == [t |-> "nan"]
Num(n) == [t |-> "num", h |-> 2 * n]
Half(n) == [t |-> "num", h |-> 2 * n + 1]
Str(s) == [t |-> "str", s |-> s]
Date(ms) == [t |-> "date", ms |-> ms]

IsNum(v) == v.t = "num"
IsStr(v) == v.t = "str"

\* ToBoolean: what `x || y`, `!x` and `if (x)` test.
Truthy(v) ==
    CASE v.t = "undefined" -> FALSE
      [] v.t = "null" -> FALSE
      [] v.t = "nan" -> FALSE
      [] v.t = "num" -> v.h # 0
      [] v.t = "str" -> Len(v.s) > 0
      [] OTHER -> TRUE

\* a || b
OrElse(a, b) == IF Truthy(a) THEN a ELSE b

\* ToNumber for the relational operators: null is 0, undefined is NaN.
ToNumber(v) ==
    CASE v.t = "num" -> v
      [] v.t = "null" -> Num(0)
      [] OTHER -> NaN

\* a < b, a > b, a <= b on numbers: every comparison with NaN is false.
JsLt(a, b) ==
    LET x == ToNumber(a)
        y == ToNumber(b)
    IN  IsNum(x) /\ IsNum(y) /\ x.h < y.h

JsGt(a, b) == JsLt(b, a)

\* q <= r * 0.3 and q > r * 0.3: the double product r * 0.3 compares with q as
\* the exact 3r/10 does (0.3 is within 3.7e-17 relative of 3/10, less than half
\* an ulp, and q and r carry few bits), so both sides are scaled by 10.
JsLeThirtyPercent(q, r) ==
    LET x == ToNumber(q)
        y == ToNumber(r)
    IN  IsNum(x) /\ IsNum(y) /\ 10 * x.h <= 3 * y.h

JsGtThirtyPercent(q, r) ==
    LET x == ToNumber(q)
        y == ToNumber(r)
    IN  IsNum(x) /\ IsNum(y) /\ 10 * x.h > 3 * y.h

\* Number.isInteger
IsInteger(v) == IsNum(v) /\ v.h % 2 = 0

(***************************************************************************)
(* Strings as character sequences.                                         *)
(***************************************************************************)
UpperCase == {"A", "B", "C", "D", "E", "F", "G", "H", "I", "J", "K", "L", "M",
              "N", "O", "P", "Q", "R", "S", "T", "U", "V", "W", "X", "Y", "Z"}
Digit == {"0", "1", "2", "3", "4", "5", "6", "7", "8", "9"}
WhiteSpace == {" ", "\t", "\n"}

RECURSIVE TrimStart(_)
TrimStart(s) ==
    IF s # <<>> /\ Head(s) \in WhiteSpace THEN TrimStart(Tail(s)) ELSE s

RECURSIVE TrimEnd(_)
TrimEnd(s) ==
    IF s # <<>> /\ s[Len(s)] \in WhiteSpace
    THEN TrimEnd(SubSeq(s, 1, Len(s) - 1))
    ELSE s

\* String.prototype.trim
Trim(s) == TrimEnd(TrimStart(s))

Repeat(c, n) == [i \in 1..n |-> c]

\* The characters of the model in code-unit order.
Alphabet ==
    <<"\t", "\n", " ", "-", "0", "1", "2", "3", "4", "5", "6", "7", "8", "9",
      "A", "B", "C", "D", "E", "F", "G", "H", "I", "J", "K", "L", "M",
      "N", "O", "P", "Q", "R", "S", "T", "U", "V", "W", "X", "Y", "Z",
      "a", "b", "c", "d", "e", "f", "g", "h", "i", "j", "k", "l", "m",
      "n", "o", "p", "q", "r", "s", "t", "u", "v", "w", "x", "y", "z">>

CharCode(c) == CHOOSE i \in 1..Len(Alphabet) : Alphabet[i] = c

\* String.prototype.toLowerCase: A-Z go to a-z, 26 places further on.
LowerChar(c) == IF c \in UpperCase THEN Alphabet[CharCode(c) + 26] ELSE c
ToLowerCase(s) == [i \in 1..Len(s) |-> LowerChar(s[i])]

\* String.prototype.includes
Includes(s, q) ==
    \E i \in 0..(Len(s) - Len(q)) : SubSeq(s, i + 1, i + Len(q)) = q

\* a < b on two strings: code units compared from the left, a proper prefix first.
RECURSIVE StrLt(_, _)
StrLt(a, b) ==
    IF b = <<>> THEN FALSE
    ELSE IF a = <<>> THEN TRUE
         ELSE IF Head(a) = Head(b) THEN StrLt(Tail(a), Tail(b))
              ELSE CharCode(Head(a)) < CharCode(Head(b))

(***************************************************************************)
(* Model<T>: data, the errors Map (insertion order) and the dirty flag.    *)
(* An entity is [cls, data, customFields, config, isDirty, errors]; data   *)
(* and customFields are functions from field keys to values.               *)
(***************************************************************************)
NoEntity == [cls |-> "none"]
EmptyMap == [k \in {} |-> Undef]

\* obj[key], undefined when the key is absent (also Map.get).
Get(obj, key) == IF key \in DOMAIN obj THEN obj[key] ELSE Undef

\* obj[key] = value (also Map.set, order apart).
Put(obj, key, value) ==
    [k \in DOMAIN obj \cup {key} |-> IF k = key THEN value ELSE obj[k]]

\* Model.addError: a new field is appended, a known field gets one more message.
AddError(errors, field, message) ==
    IF \E i \in 1..Len(errors) : errors[i].field = field
    THEN [i \in 1..Len(errors) |->
             IF errors[i].field = field
             THEN [errors[i] EXCEPT !.msgs = Append(@, message)]
             ELSE errors[i]]
    ELSE Append(errors, [field |-> field, msgs |-> <<message>>])

HasErrors(e) == Len(e.errors) > 0

\* Model.set
SetField(e, key, value) ==
    [e EXCEPT !.data = Put(@, key, value), !.isDirty = TRUE]

MarkAsClean(e) == [e EXCEPT !.isDirty = FALSE]

(***************************************************************************)
(* Asset.                                                                  *)
(***************************************************************************)
MaxNameLength == 100
MaxQuantity == 999999
DefaultReorderPoint == 10

Critical == Str(<<"c", "r", "i", "t", "i", "c", "a", "l">>)
Essential == Str(<<"e", "s", "s", "e", "n", "t", "i", "a", "l">>)
Routine == Str(<<"r", "o", "u", "t", "i", "n", "e">>)

\* generateId() of '@/utils/id': an identifier no other entity carries; the
\* model derives it from the reference of the object under construction.
GenerateId(ref) == Str(<<"g", "e", "n", "-", CHOOSE d \in Digit : d = ToString(ref)>>)

\* Asset.initialize: the caller's partial record over the defaults.
Initialize(partial, ref) ==
    [id |-> OrElse(Get(partial, "id"), GenerateId(ref)),
     name |-> OrElse(Get(partial, "name"), Str(<<>>)),
     manufacturer |-> OrElse(Get(partial, "manufacturer"), Str(<<>>)),
     category |-> OrElse(Get(partial, "category"), Str(<<>>)),
     quantity |-> IF Get(partial, "quantity") # Undef
                  THEN Get(partial, "quantity") ELSE Num(0),
     serialNumber |-> OrElse(Get(partial, "serialNumber"), Str(<<>>)),
     criticalLevel |-> OrElse(Get(partial, "criticalLevel"), Routine),
     lastMaintenance |-> Get(partial, "lastMaintenance"),
     expiryDate |-> Get(partial, "expiryDate"),
     reorderPoint |-> IF Get(partial, "reorderPoint") # Undef
                      THEN Get(partial, "reorderPoint")
                      ELSE Num(DefaultReorderPoint)]

\* new Asset(partial)
NewAsset(partial, ref) ==
    [cls |-> "Asset", data |-> Initialize(partial, ref), customFields |-> EmptyMap,
     config |-> "none", isDirty |-> FALSE, errors |-> <<>>]

\* /^[A-Z]{2}-\d{6}$/
MatchesSerialPattern(s) ==
    /\ Len(s) = 9
    /\ s[1] \in UpperCase
    /\ s[2] \in UpperCase
    /\ s[3] = "-"
    /\ \A i \in 4..9 : s[i] \in Digit

NameErrors(d, errors) ==
    IF ~(IsStr(d.name) /\ Trim(d.name.s) # <<>>)
    THEN AddError(errors, "name", "Name is required")
    ELSE IF Len(d.name.s) > MaxNameLength
         THEN AddError(errors, "name", "Name must be less than 100 characters")
         ELSE errors

\* The quantity rules without the upper limit.
QuantityErrorsNoMax(d, errors) ==
    IF d.quantity = Undef \/ d.quantity = Null
    THEN AddError(errors, "quantity", "Quantity is required")
    ELSE IF JsLt(d.quantity, Num(0))
         THEN AddError(errors, "quantity", "Quantity cannot be negative")
         ELSE IF ~IsInteger(d.quantity)
              THEN AddError(errors, "quantity", "Quantity must be a whole number")
              ELSE errors

QuantityErrors(d, errors) ==
    IF d.quantity = Undef \/ d.quantity = Null
    THEN AddError(errors, "quantity", "Quantity is required")
    ELSE IF JsLt(d.quantity, Num(0))
         THEN AddError(errors, "quantity", "Quantity cannot be negative")
         ELSE IF JsGt(d.quantity, Num(MaxQuantity))
              THEN AddError(errors, "quantity", "Quantity exceeds maximum allowed value")
              ELSE IF ~IsInteger(d.quantity)
                   THEN AddError(errors, "quantity", "Quantity must be a whole number")
                   ELSE errors

SerialNumberErrors(d, errors) ==
    IF ~Truthy(d.serialNumber)
    THEN AddError(errors, "serialNumber", "Serial number is required")
    ELSE IF ~MatchesSerialPattern(d.serialNumber.s)
         THEN AddError(errors, "serialNumber",
                       "Invalid serial number format (should be XX-000000)")
         ELSE errors

ReorderPointErrors(d, errors) ==
    IF JsLt(d.reorderPoint, Num(0))
    THEN AddError(errors, "reorderPoint", "Reorder point cannot be negative")
    ELSE errors

\* Asset.validate: the entity with its errors Map cleared and refilled; the
\* call returns ~HasErrors of the result.
AssetValidate(e) ==
    [e EXCEPT !.errors =
        ReorderPointErrors(e.data,
            SerialNumberErrors(e.data,
                QuantityErrors(e.data,
                    NameErrors(e.data, <<>>))))]

\* isLowStock without the 30% floor.
IsLowStockNoFloor(e) == JsLt(e.data.quantity, e.data.reorderPoint)

\* isLowStock giving way to the critical tag.
IsLowStockUnlessTagged(e) ==
    /\ e.data.criticalLevel # Critical
    /\ JsLt(e.data.quantity, e.data.reorderPoint)
    /\ JsGtThirtyPercent(e.data.quantity, e.data.reorderPoint)

\* Asset.isLowStock
IsLowStock(e) ==
    /\ JsLt(e.data.quantity, e.data.reorderPoint)
    /\ JsGtThirtyPercent(e.data.quantity, e.data.reorderPoint)

\* isCritical with the 30% mark itself left out (< for <=).
IsCriticalStrict(e) ==
    IF e.data.criticalLevel = Critical
    THEN TRUE
    ELSE /\ JsLeThirtyPercent(e.data.quantity, e.data.reorderPoint)
         /\ ~(IsNum(e.data.quantity) /\ IsNum(e.data.reorderPoint)
              /\ 10 * e.data.quantity.h = 3 * e.data.reorderPoint.h)

\* Asset.isCritical
IsCritical(e) ==
    IF e.data.criticalLevel = Critical
    THEN TRUE
    ELSE JsLeThirtyPercent(e.data.quantity, e.data.reorderPoint)

\* What calling a missing method throws.
TypeError == [t |-> "TypeError"]

\* x?.toISOString(): undefined for undefined and null, the ISO string for a
\* Date, a TypeError for any other value (a string has no toISOString).
ToISOString(v) ==
    IF v.t = "date" THEN [t |-> "iso", ms |-> v.ms]
    ELSE IF v.t \in {"undefined", "null"} THEN Undef
         ELSE TypeError

\* Asset.serialize
AssetSerialize(e) ==
    [k \in DOMAIN e.data |->
        IF k \in {"lastMaintenance", "expiryDate"}
        THEN ToISOString(e.data[k])
        ELSE e.data[k]]

(***************************************************************************)
(* HospitalConfig: the tenant schemas the sources supply.                  *)
(***************************************************************************)
Field(key, label, type, required) ==
    [key |-> key, label |-> label, type |-> type, required |-> required]

\* MedicalDataGenerator.getDefaultConfig
DefaultConfigFields ==
    << Field("name", "Name", "text", TRUE),
       Field("manufacturer", "Manufacturer", "text", TRUE),
       Field("category", "Category", "text", TRUE),
       Field("serialNumber", "Serial Number", "text", TRUE),
       Field("quantity", "Quantity", "number", TRUE),
       Field("department", "Department", "text", FALSE),
       Field("purchasePrice", "Purchase Price", "currency", FALSE),
       Field("warrantyExpiry", "Warranty Expiry", "date", FALSE),
       Field("lastCalibration", "Last Calibration", "date", FALSE) >>

\* The HospitalAsset test's schema, with its pushed required custom field.
TestConfigFields ==
    << Field("name", "Equipment Name", "text", TRUE),
       Field("quantity", "Quantity", "number", TRUE),
       Field("category", "Category", "text", TRUE),
       Field("manufacturer", "Manufacturer", "text", TRUE),
       Field("purchasePrice", "Price", "currency", FALSE),
       Field("warrantyExpiry", "Warranty", "date", FALSE),
       Field("requiredCustom", "Required Custom", "text", TRUE) >>

\* MedicalDataGenerator.getHospitalConfigs()['hospital-1']
Hospital1ConfigFields ==
    << Field("name", "Name", "text", TRUE),
       Field("manufacturer", "Manufacturer", "text", TRUE),
       Field("category", "Category", "text", TRUE),
       Field("quantity", "Quantity", "number", TRUE),
       Field("serialNumber", "Serial Number", "text", TRUE),
       Field("expiryDate", "Expiry Date", "date", FALSE),
       Field("purchasePrice", "Price", "currency", FALSE),
       Field("department", "Department", "text", FALSE) >>

ConfigIds == {"default", "test-hospital"}

\* HospitalConfig.fields of the schema an entity was constructed with.
ConfigFields(config) ==
    CASE config = "default" -> DefaultConfigFields
      [] config = "hospital-1" -> Hospital1ConfigFields
      [] config = "test-hospital" -> TestConfigFields
      [] OTHER -> <<>>

(***************************************************************************)
(* HospitalAsset.                                                          *)
(***************************************************************************)
\* The optional typed fields the constructor copies into data when truthy.
CopyIfTruthy(data, partial, key) ==
    IF Truthy(Get(partial, key)) THEN Put(data, key, partial[key]) ELSE data

\* new HospitalAsset(partial, config)
NewHospitalAsset(partial, config, ref) ==
    LET given == Get(partial, "customFields")
        custom == IF Truthy(given) THEN given.fields ELSE EmptyMap
        price == Get(partial, "purchasePrice")
        d1 == CopyIfTruthy(Initialize(partial, ref), partial, "location")
        d2 == CopyIfTruthy(d1, partial, "condition")
        d3 == CopyIfTruthy(d2, partial, "purchasePrice")
        d4 == CopyIfTruthy(d3, partial, "warrantyExpiry")
        d5 == CopyIfTruthy(d4, partial, "lastCalibration")
    IN  [cls |-> "HospitalAsset",
         data |-> d5,
         customFields |-> IF Truthy(price) THEN Put(custom, "purchasePrice", price)
                          ELSE custom,
         config |-> config, isDirty |-> FALSE, errors |-> <<>>]

\* A nested customFields object of a constructor argument.
Obj(fields) == [t |-> "object", fields |-> fields]

GetCustomField(e, key) == Get(e.customFields, key)

SetCustomField(e, key, value) ==
    [e EXCEPT !.customFields = Put(@, key, value), !.isDirty = TRUE]

\* The value a required field is checked on: the entity's own field when data
\* has the key, else the custom-fields Map.
RequiredValue(e, key) ==
    IF key \in DOMAIN e.data THEN e.data[key] ELSE GetCustomField(e, key)

\* The required-field test without the empty string.
IsMissingNoEmpty(v) == v = Undef \/ v = Null

IsMissing(v) == v = Undef \/ v = Null \/ v = Str(<<>>)

\* The loop of HospitalAsset.validate over the first n schema fields.
RECURSIVE RequiredErrors(_, _, _, _)
RequiredErrors(e, fields, n, errors) ==
    IF n = 0
    THEN errors
    ELSE LET before == RequiredErrors(e, fields, n - 1, errors)
             f == fields[n]
         IN  IF f.required /\ IsMissing(RequiredValue(e, f.key))
             THEN AddError(before, f.key, f.label \o " is required")
             ELSE before

\* HospitalAsset.validate: the entity with its errors refilled; the call
\* returns baseValid && !hasErrors().
HospitalValidate(e) ==
    LET base == AssetValidate(e)
        fields == ConfigFields(e.config)
    IN  [base EXCEPT !.errors = RequiredErrors(base, fields, Len(fields), base.errors)]

HospitalValidateResult(e) ==
    ~HasErrors(AssetValidate(e)) /\ ~HasErrors(HospitalValidate(e))

\* validate() as dispatched on the entity's class.
Validate(e) == IF e.cls = "HospitalAsset" THEN HospitalValidate(e) ELSE AssetValidate(e)

ValidateResult(e) ==
    IF e.cls = "HospitalAsset" THEN HospitalValidateResult(e)
    ELSE ~HasErrors(AssetValidate(e))

\* HospitalAsset.serialize
HospitalSerialize(e) ==
    LET base == AssetSerialize(e)
        extra == [customFields |-> Obj(e.customFields),
                  location |-> Get(e.data, "location"),
                  condition |-> Get(e.data, "condition"),
                  purchasePrice |-> Get(e.data, "purchasePrice"),
                  warrantyExpiry |-> ToISOString(Get(e.data, "warrantyExpiry")),
                  lastCalibration |-> ToISOString(Get(e.data, "lastCalibration"))]
    IN  [k \in DOMAIN base \cup DOMAIN extra |->
            IF k \in DOMAIN extra THEN extra[k] ELSE base[k]]

Serialize(e) == IF e.cls = "HospitalAsset" THEN HospitalSerialize(e) ELSE AssetSerialize(e)

\* serialize() throws when one of its toISOString calls does.
SerializeThrows(e) == \E k \in DOMAIN Serialize(e) : Serialize(e)[k] = TypeError

(***************************************************************************)
(* AssetRepository: storage is a Map kept in insertion order; every        *)
(* successful mutation writes the whole collection to localStorage.        *)
(***************************************************************************)
StorageKeys(st) == {st[i].key : i \in 1..Len(st)}

\* Map.has
StorageHas(st, id) == id \in StorageKeys(st)

\* Map.get(id) || null: the reference stored under the key.
StorageGet(st, id) ==
    IF StorageHas(st, id)
    THEN (CHOOSE x \in {st[i] : i \in 1..Len(st)} : x.key = id).ref
    ELSE 0

\* A Map.set that always adds an entry.
StorageSetAppend(st, id, ref) == Append(st, [key |-> id, ref |-> ref])

\* Map.set: a known key keeps its place, a new key goes last.
StorageSet(st, id, ref) ==
    IF StorageHas(st, id)
    THEN [i \in 1..Len(st) |-> IF st[i].key = id THEN [key |-> id, ref |-> ref] ELSE st[i]]
    ELSE Append(st, [key |-> id, ref |-> ref])

\* Map.delete of a key (the entries left keep their order).
RECURSIVE StorageDelete(_, _)
StorageDelete(st, id) ==
    IF st = <<>> THEN <<>>
    ELSE IF Head(st).key = id THEN Tail(st)
         ELSE <<Head(st)>> \o StorageDelete(Tail(st), id)

\* JSON.stringify of a value: a Date becomes its ISO string, NaN becomes null,
\* and a property whose value is undefined is left out of its object.
RECURSIVE JsonValue(_)
JsonObject(obj) ==
    [k \in {x \in DOMAIN obj : obj[x] # Undef} |-> JsonValue(obj[k])]

JsonValue(v) ==
    CASE v.t = "date" -> [t |-> "iso", ms |-> v.ms]
      [] v.t = "nan" -> Null
      [] v.t = "object" -> Obj(JsonObject(v.fields))
      [] OTHER -> v

\* The array saveToLocalStorage stringifies: one {id, data} per Map entry.
Snapshot(st, hp) ==
    [t |-> "json",
     items |-> [i \in 1..Len(st) |->
                  [id |-> st[i].key, data |-> JsonObject(Serialize(hp[st[i].ref]))]]]

\* saveToLocalStorage: setItem may throw (quota); the error is caught and logged.
SaveToLocalStorage(st, hp, old, writeOk) ==
    IF writeOk THEN Snapshot(st, hp) ELSE old

\* search's predicate without the category.
SearchMatchesWithoutCategory(e, query) ==
    LET lowerQuery == ToLowerCase(query.s)
    IN  \/ Includes(ToLowerCase(e.data.name.s), lowerQuery)
        \/ Includes(ToLowerCase(e.data.manufacturer.s), lowerQuery)
        \/ Includes(ToLowerCase(e.data.serialNumber.s), lowerQuery)

\* The predicate of AssetRepository.search's filter.
SearchMatches(e, query) ==
    LET lowerQuery == ToLowerCase(query.s)
    IN  \/ Includes(ToLowerCase(e.data.name.s), lowerQuery)
        \/ Includes(ToLowerCase(e.data.manufacturer.s), lowerQuery)
        \/ Includes(ToLowerCase(e.data.serialNumber.s), lowerQuery)
        \/ Includes(ToLowerCase(e.data.category.s), lowerQuery)

\* beforeSave reporting the last field's last message.
FirstErrorOfLastField(e) ==
    IF HasErrors(e)
    THEN LET msgs == e.errors[Len(e.errors)].msgs IN msgs[Len(msgs)]
    ELSE "Validation failed"

\* Repository.beforeSave: the message of the Error it throws.
FirstError(e) == IF HasErrors(e) THEN e.errors[1].msgs[1] ELSE "Validation failed"
SaveRejection(e) == Str(<<"Model validation failed: ", FirstError(e)>>)

\* findAll: Array.from(storage.values())
FindAll(st) == [i \in 1..Len(st) |-> st[i].ref]

(***************************************************************************)
(* The asset store's derived views.                                        *)
(***************************************************************************)
\* a + b and a * b on numbers; NaN when an operand is no number.
JsAdd(a, b) ==
    LET x == ToNumber(a)
        y == ToNumber(b)
    IN  IF IsNum(x) /\ IsNum(y) THEN [t |-> "num", h |-> x.h + y.h] ELSE NaN

JsMul(a, b) ==
    LET x == ToNumber(a)
        y == ToNumber(b)
    IN  IF IsNum(x) /\ IsNum(y) THEN [t |-> "num", h |-> (x.h * y.h) \div 2] ELSE NaN

\* criticalAssets and lowStockAssets: Array.filter, order kept.
CriticalAssets(as, hp) == SelectSeq(as, LAMBDA r : IsCritical(hp[r]))
LowStockAssets(as, hp) == SelectSeq(as, LAMBDA r : IsLowStock(hp[r]))

\* A totalValue without the `|| 0` on the price.
RECURSIVE TotalValueNoDefault(_, _)
TotalValueNoDefault(as, hp) ==
    IF as = <<>> THEN Num(0)
    ELSE LET asset == hp[as[Len(as)]]
         IN  JsAdd(TotalValueNoDefault(SubSeq(as, 1, Len(as) - 1), hp),
                   JsMul(asset.data.quantity, GetCustomField(asset, "purchasePrice")))

\* totalValue: reduce over the working set, from 0.
RECURSIVE TotalValue(_, _)
TotalValue(as, hp) ==
    IF as = <<>> THEN Num(0)
    ELSE LET asset == hp[as[Len(as)]]
             price == OrElse(GetCustomField(asset, "purchasePrice"), Num(0))
         IN  JsAdd(TotalValue(SubSeq(as, 1, Len(as) - 1), hp),
                   JsMul(asset.data.quantity, price))

\* categories: the Set of the categories present.
Categories(as, hp) == {hp[as[i]].data.category : i \in 1..Len(as)}

Statistics(as, hp) ==
    [totalAssets |-> Len(as),
     totalValue |-> TotalValue(as, hp),
     criticalCount |-> Len(CriticalAssets(as, hp)),
     lowStockCount |-> Len(LowStockAssets(as, hp)),
     categoriesCount |-> Cardinality(Categories(as, hp))]

\* The search test of filteredAssets: the lower-cased query within the
\* lower-cased name, serialNumber or manufacturer.
MatchesSearchCaseSensitive(e, query) ==
    \/ Includes(e.data.name.s, query.s)
    \/ Includes(e.data.serialNumber.s, query.s)
    \/ Includes(e.data.manufacturer.s, query.s)

MatchesSearch(e, query) ==
    LET q == ToLowerCase(query.s)
    IN  \/ Includes(ToLowerCase(e.data.name.s), q)
        \/ Includes(ToLowerCase(e.data.serialNumber.s), q)
        \/ Includes(ToLowerCase(e.data.manufacturer.s), q)

\* aVal > bVal of the sort comparator: two strings compare by code units,
\* other values as numbers.
JsGreater(a, b) == IF IsStr(a) /\ IsStr(b) THEN StrLt(b.s, a.s) ELSE JsGt(a, b)

\* A comparator that ignores the direction.
SortComparisonAscending(a, b, by, direction) ==
    LET aVal == Get(a.data, by)
        bVal == Get(b.data, by)
    IN  IF JsGreater(aVal, bVal) THEN 1
        ELSE IF JsGreater(bVal, aVal) THEN -1 ELSE 0

\* The comparator handed to Array.sort.
SortComparison(a, b, by, direction) ==
    LET aVal == Get(a.data, by)
        bVal == Get(b.data, by)
        comparison == IF JsGreater(aVal, bVal) THEN 1
                      ELSE IF JsGreater(bVal, aVal) THEN -1 ELSE 0
    IN  IF direction = "asc" THEN comparison ELSE -comparison

\* Array.prototype.sort, which is stable: each element goes behind the elements
\* that do not compare greater than it. (Sort keys of one type, as here, make
\* the comparator consistent and the order unique.)
RECURSIVE SortRefs(_, _, _, _)
SortRefs(as, hp, by, direction) ==
    IF as = <<>> THEN <<>>
    ELSE LET sorted == SortRefs(SubSeq(as, 1, Len(as) - 1), hp, by, direction)
             x == as[Len(as)]
             k == Cardinality({i \in 1..Len(sorted) :
                     SortComparison(hp[sorted[i]], hp[x], by, direction) <= 0})
         IN  SubSeq(sorted, 1, k) \o <<x>> \o SubSeq(sorted, k + 1, Len(sorted))

\* filteredAssets: special filter, search, category, then the sort of a copy.
FilteredAssets(as, hp, filter, query, category, by, direction) ==
    LET special == IF filter = "critical" THEN SelectSeq(as, LAMBDA r : IsCritical(hp[r]))
                   ELSE IF filter = "lowStock"
                        THEN SelectSeq(as, LAMBDA r : IsLowStock(hp[r]))
                        ELSE as
        searched == IF Truthy(query)
                    THEN SelectSeq(special, LAMBDA r : MatchesSearch(hp[r], query))
                    ELSE special
        inCategory == IF Truthy(category)
                      THEN SelectSeq(searched, LAMBDA r : hp[r].data.category = category)
                      ELSE searched
    IN  SortRefs(inCategory, hp, by, direction)

\* `Validation failed: ${field}: ${messages}, ...` of createAsset and updateAsset.
RECURSIVE JoinMessages(_)
JoinMessages(msgs) ==
    IF Len(msgs) = 0 THEN <<>>
    ELSE IF Len(msgs) = 1 THEN <<msgs[1]>>
         ELSE <<msgs[1], ",">> \o JoinMessages(Tail(msgs))

RECURSIVE JoinErrors(_)
JoinErrors(errors) ==
    IF errors = <<>> THEN <<>>
    ELSE LET one == <<errors[1].field, ": ">> \o JoinMessages(errors[1].msgs)
         IN  IF Len(errors) = 1 THEN one
             ELSE one \o <<", ">> \o JoinErrors(Tail(errors))

ValidationMessage(e) == Str(<<"Validation failed: ">> \o JoinErrors(e.errors))

\* Array.findIndex(a => a.get('id') === id): 0 stands for -1.
FindIndex(as, hp, id) ==
    IF \E i \in 1..Len(as) : hp[as[i]].data.id = id
    THEN CHOOSE i \in 1..Len(as) :
            /\ hp[as[i]].data.id = id
            /\ \A j \in 1..(i - 1) : hp[as[j]].data.id # id
    ELSE 0

\* Array.splice(index): everything from the index on goes.
RemoveFrom(seq, index) == SubSeq(seq, 1, index - 1)

\* Array.splice(index, 1)
RemoveAt(seq, index) ==
    [i \in 1..(Len(seq) - 1) |-> IF i < index THEN seq[i] ELSE seq[i + 1]]

(***************************************************************************)
(* Object references, literals of the callers, and the store at rest.      *)
(***************************************************************************)
Refs == 1..MaxEntities

ValidSerial == Str(<<"A", "B", "-", "1", "2", "3", "4", "5", "6">>)
ECG == Str(<<"E", "C", "G">>)
Cardiology == Str(<<"C", "a", "r", "d", "i", "o">>)
MedTech == Str(<<"M", "e", "d", "T", "e", "c", "h">>)

StoreIdle ==
    /\ storage = <<>>
    /\ localStorage = Null
    /\ assets = <<>>
    /\ loading = FALSE
    /\ error = Null
    /\ activeFilter = "all"
    /\ searchQuery = Str(<<>>)
    /\ selectedCategory = Null
    /\ sortBy = "name"
    /\ sortDirection = "asc"
    /\ calls = <<>>

StoreUnchanged ==
    UNCHANGED <<storage, localStorage, assets, loading, error,
                activeFilter, searchQuery, selectedCategory, sortBy, sortDirection, calls>>

(***************************************************************************)
(* Repository operations as functions of the state they read: each yields  *)
(* the heap, the Map and the localStorage entry it leaves, and its result. *)
(***************************************************************************)
\* A save that takes the entity out of the Map again when the write fails.
SaveOutcomeRollingBack(hp, st, ls, ref, writeOk) ==
    LET checked == Validate(hp[ref])
    IN  IF ~ValidateResult(hp[ref])
        THEN [ok |-> FALSE, message |-> SaveRejection(checked),
              heap |-> [hp EXCEPT ![ref] = checked], storage |-> st, localStorage |-> ls]
        ELSE LET st2 == StorageSet(st, checked.data.id, ref)
                 hp2 == [hp EXCEPT ![ref] = MarkAsClean(checked)]
             IN  [ok |-> TRUE, message |-> Null,
                  heap |-> hp2, storage |-> IF writeOk THEN st2 ELSE st,
                  localStorage |-> SaveToLocalStorage(st2, hp2, ls, writeOk)]

\* AssetRepository.save(model): beforeSave, storage.set, afterSave, saveToLocalStorage.
SaveOutcome(hp, st, ls, ref, writeOk) ==
    LET checked == Validate(hp[ref])
    IN  IF ~ValidateResult(hp[ref])
        THEN [ok |-> FALSE, message |-> SaveRejection(checked),
              heap |-> [hp EXCEPT ![ref] = checked], storage |-> st, localStorage |-> ls]
        ELSE LET st2 == StorageSet(st, checked.data.id, ref)
                 hp2 == [hp EXCEPT ![ref] = MarkAsClean(checked)]
             IN  [ok |-> TRUE, message |-> Null,
                  heap |-> hp2, storage |-> st2,
                  localStorage |-> SaveToLocalStorage(st2, hp2, ls, writeOk)]

\* A delete that reports success whatever Map.delete returned.
DeleteOutcomeUnchecked(hp, st, ls, id, writeOk) ==
    LET st2 == StorageDelete(st, id)
    IN  [result |-> TRUE, storage |-> st2,
         localStorage |-> SaveToLocalStorage(st2, hp, ls, writeOk)]

\* AssetRepository.delete(id)
DeleteOutcome(hp, st, ls, id, writeOk) ==
    IF StorageHas(st, id)
    THEN LET st2 == StorageDelete(st, id)
         IN  [result |-> TRUE, storage |-> st2,
              localStorage |-> SaveToLocalStorage(st2, hp, ls, writeOk)]
    ELSE [result |-> FALSE, storage |-> st, localStorage |-> ls]

(***************************************************************************)
(* Spec: entities are constructed and mutated by the callers, saved and    *)
(* deleted through the repository, and created, updated, deleted and       *)
(* loaded through the store.                                               *)
(***************************************************************************)
A1 == Str(<<"a", "1">>)
A2 == Str(<<"a", "2">>)
NoSuchId == Str(<<"z", "z">>)
Radiology == Str(<<"R", "a", "d", "i", "o">>)
Xray == Str(<<"X", "-", "R", "a", "y">>)
ICU == Str(<<"I", "C", "U">>)
InvalidSerial == Str(<<"I", "N", "V", "A", "L", "I", "D">>)

\* The constructor arguments of the store's callers (the store tests' records).
StorePartials ==
    { [id |-> A1, name |-> ECG, manufacturer |-> MedTech, category |-> Cardiology,
       quantity |-> Num(2), serialNumber |-> ValidSerial, reorderPoint |-> Num(3),
       customFields |-> Obj([purchasePrice |-> Num(1000)])],
      [id |-> A2, name |-> Xray, manufacturer |-> MedTech, category |-> Radiology,
       quantity |-> Num(5), serialNumber |-> ValidSerial, reorderPoint |-> Num(1)],
      [name |-> ECG, manufacturer |-> MedTech, category |-> Cardiology,
       quantity |-> Num(8), serialNumber |-> InvalidSerial, criticalLevel |-> Critical] }

\* The entities of the repository's callers, by object: two constructed with
\* one id, a third with its own, a fourth without id, name and serial number.
RepoPartials ==
    << [id |-> A1, name |-> ECG, manufacturer |-> MedTech, category |-> Cardiology,
        quantity |-> Num(2), serialNumber |-> ValidSerial, reorderPoint |-> Num(3),
        customFields |-> Obj([purchasePrice |-> Num(1000)])],
       [id |-> A1, name |-> Xray, manufacturer |-> MedTech, category |-> Radiology,
        quantity |-> Num(5), serialNumber |-> ValidSerial, lastMaintenance |-> Date(1)],
       [id |-> A2, name |-> Xray, manufacturer |-> MedTech, category |-> Radiology,
        quantity |-> Num(5), serialNumber |-> ValidSerial],
       [manufacturer |-> MedTech, category |-> Cardiology, quantity |-> Num(8)] >>

RepoRefs == 1..MaxRepoEntities
RepoPartial(ref) == RepoPartials[((ref - 1) % Len(RepoPartials)) + 1]

\* The id arguments of delete.
RepoIds == {A1, A2, NoSuchId}

Ids == {A1, A2, NoSuchId} \cup {GenerateId(r) : r \in Refs}

\* entity.set(key, value) calls of the repository's callers.
RepoSetPool == { <<"serialNumber", Str(<<>>)>> }

\* The `updates` arguments of updateAsset: Object.entries in order; a key is the
\* sequence of its parts, the prefix 'custom_' being a part of its own.
UpdatePool ==
    { << <<<<"quantity">>, Num(-5)>> >>,
      << <<<<"custom_", "purchasePrice">>, Num(500)>>, <<<<"location">>, ICU>>,
         <<<<"unknown">>, Num(1)>>, <<<<"quantity">>, Num(9)>> >> }

Constructed == {r \in Refs : heap[r] # NoEntity}
Free == Refs \ Constructed
FirstFree == CHOOSE r \in Free : \A x \in Free : r <= x

Init ==
    /\ heap = [r \in Refs |-> NoEntity]
    /\ StoreIdle
    /\ last = [op |-> "init"]
    /\ mutations = 0

FiltersUnchanged ==
    UNCHANGED <<activeFilter, searchQuery, selectedCategory, sortBy, sortDirection, calls>>
StoreStateUnchanged == UNCHANGED <<assets, loading, error>>

\* new HospitalAsset(partial, config)
Construct ==
    /\ Free # {}
    /\ \E partial \in StorePartials :
          heap' = [heap EXCEPT ![FirstFree] = NewHospitalAsset(partial, "default", FirstFree)]
    /\ last' = [op |-> "new"]
    /\ UNCHANGED <<storage, localStorage, mutations>>
    /\ StoreStateUnchanged
    /\ FiltersUnchanged

\* What localStorage.setItem does when it is reached: it returns or it throws.
WriteOutcomes(reached) == IF reached THEN BOOLEAN ELSE {TRUE}

InitRepo ==
    /\ heap = [r \in RepoRefs |-> NoEntity]
    /\ StoreIdle
    /\ last = [op |-> "init"]
    /\ mutations = 0

\* new HospitalAsset(partial, config) by a caller of the repository
RepoConstruct ==
    /\ \E ref \in RepoRefs :
          /\ heap[ref] = NoEntity
          /\ heap' = [heap EXCEPT ![ref] = NewHospitalAsset(RepoPartial(ref), "default", ref)]
    /\ last' = [op |-> "new"]
    /\ UNCHANGED <<storage, localStorage, mutations>>
    /\ StoreStateUnchanged
    /\ FiltersUnchanged

\* entity.set(key, value) on a constructed entity
EntitySet ==
    /\ \E ref \in RepoRefs, kv \in RepoSetPool :
          /\ heap[ref] # NoEntity
          /\ heap' = [heap EXCEPT ![ref] = SetField(@, kv[1], kv[2])]
    /\ last' = [op |-> "set"]
    /\ UNCHANGED <<storage, localStorage, mutations>>
    /\ StoreStateUnchanged
    /\ FiltersUnchanged

\* repository.save(model)
RepoSave ==
    /\ \E ref \in RepoRefs :
          /\ heap[ref] # NoEntity
          /\ \E writeOk \in WriteOutcomes(ValidateResult(heap[ref])) :
                LET out == SaveOutcome(heap, storage, localStorage, ref, writeOk)
                IN  /\ heap' = out.heap
                    /\ storage' = out.storage
                    /\ localStorage' = out.localStorage
                    /\ last' = [op |-> "save", ref |-> ref, ok |-> out.ok,
                                message |-> out.message, wrote |-> out.ok /\ writeOk,
                                existed |-> StorageHas(storage, heap[ref].data.id)]
    /\ UNCHANGED mutations
    /\ StoreStateUnchanged
    /\ FiltersUnchanged

\* repository.delete(id)
RepoDelete ==
    /\ \E id \in RepoIds :
          \E writeOk \in WriteOutcomes(StorageHas(storage, id)) :
             LET out == DeleteOutcome(heap, storage, localStorage, id, writeOk)
             IN  /\ storage' = out.storage
                 /\ localStorage' = out.localStorage
                 /\ last' = [op |-> "delete", id |-> id, result |-> out.result,
                             wrote |-> out.result /\ writeOk]
    /\ UNCHANGED <<heap, mutations>>
    /\ StoreStateUnchanged
    /\ FiltersUnchanged

\* The `models` arguments of bulkSave: lists of distinct constructed entities.
BulkLists ==
    {models \in UNION {[1..n -> RepoRefs] : n \in 1..MaxRepoEntities} :
        /\ \A i \in 1..Len(models) : heap[models[i]] # NoEntity
        /\ \A i, j \in 1..Len(models) : i # j => models[i] # models[j]}

\* A bulkSave that validates every model before it saves any.
RECURSIVE BulkSaveAllOrNothing(_, _, _, _)
BulkSaveAllOrNothing(state, models, writes, n) ==
    IF n = 0 THEN state
    ELSE LET invalid == {i \in 1..n : ~ValidateResult(state.heap[models[i]])}
             first == CHOOSE i \in invalid : \A j \in invalid : i <= j
             prev == BulkSaveAllOrNothing(state, models, writes, n - 1)
             out == SaveOutcome(prev.heap, prev.storage, prev.localStorage,
                                models[n], writes[n])
         IN  IF invalid # {}
             THEN [state EXCEPT !.ok = FALSE,
                                !.message = SaveRejection(Validate(state.heap[models[first]]))]
             ELSE [out EXCEPT !.ok = out.ok] @@ [saved |-> prev.saved + 1]

\* bulkSave's loop: `for (const model of models) await this.save(model)`; the
\* first save that rejects ends the loop and rejects the call.
RECURSIVE BulkSaveOutcome(_, _, _, _)
BulkSaveOutcome(state, models, writes, n) ==
    IF n = 0 THEN state
    ELSE LET prev == BulkSaveOutcome(state, models, writes, n - 1)
             out == SaveOutcome(prev.heap, prev.storage, prev.localStorage,
                                models[n], writes[n])
         IN  IF ~prev.ok THEN prev
             ELSE out @@ [saved |-> IF out.ok THEN prev.saved + 1 ELSE prev.saved]

\* repository.bulkSave(models)
RepoBulkSave ==
    /\ \E models \in BulkLists :
          \E writes \in [1..Len(models) -> BOOLEAN] :
             LET start == [ok |-> TRUE, message |-> Null, heap |-> heap, storage |-> storage,
                           localStorage |-> localStorage, saved |-> 0]
                 out == BulkSaveOutcome(start, models, writes, Len(models))
             IN  /\ \A i \in 1..Len(models) : i > out.saved => writes[i]
                 /\ heap' = out.heap
                 /\ storage' = out.storage
                 /\ localStorage' = out.localStorage
                 /\ last' = [op |-> "bulkSave", models |-> models, ok |-> out.ok,
                             message |-> out.message, saved |-> out.saved,
                             wrote |-> \A i \in 1..Len(models) : writes[i]]
    /\ UNCHANGED mutations
    /\ StoreStateUnchanged
    /\ FiltersUnchanged

\* The base Repository's deleteAll, which knows no durable entry.
RepoDeleteAllInMemory ==
    /\ storage' = <<>>
    /\ localStorage' = localStorage
    /\ last' = [op |-> "deleteAll", result |-> Len(storage)]
    /\ UNCHANGED <<heap, mutations>>
    /\ StoreStateUnchanged
    /\ FiltersUnchanged

\* repository.deleteAll(): the Map is cleared and the entry removed.
RepoDeleteAll ==
    /\ storage' = <<>>
    /\ localStorage' = Null
    /\ last' = [op |-> "deleteAll", result |-> Len(storage)]
    /\ UNCHANGED <<heap, mutations>>
    /\ StoreStateUnchanged
    /\ FiltersUnchanged

\* new AssetRepository() at a page load: the objects of the page before are
\* gone, the Map starts empty, and loadFromLocalStorage parses the stored entry
\* without using the result.
RepoReload ==
    /\ heap' = [r \in RepoRefs |-> NoEntity]
    /\ storage' = <<>>
    /\ last' = [op |-> "newRepository", held |-> Len(storage)]
    /\ UNCHANGED <<localStorage, mutations>>
    /\ StoreStateUnchanged
    /\ FiltersUnchanged

\* One entry of `updates` applied as updateAsset's forEach does.
ApplyUpdate(e, key, value) ==
    IF key[1] = "custom_"
    THEN SetCustomField(e, key[2], value)
    ELSE IF key = <<"location">>
         THEN [e EXCEPT !.data = Put(@, "location", value)]
         ELSE IF key = <<"condition">>
              THEN [e EXCEPT !.data = Put(@, "condition", value)]
              ELSE IF key[1] \in DOMAIN e.data
                   THEN SetField(e, key[1], value)
                   ELSE e

RECURSIVE ApplyUpdates(_, _)
ApplyUpdates(e, updates) ==
    IF updates = <<>> THEN e
    ELSE ApplyUpdates(ApplyUpdate(e, Head(updates)[1], Head(updates)[2]), Tail(updates))

\* A not-found message that leaves the id out.
NotFoundMessageWithoutId(id) == Str(<<"Asset not found">>)

NotFoundMessage(id) == Str(<<"Asset with ID ">> \o id.s \o <<" not found">>)
DeleteFailedMessage == Str(<<"Failed to delete asset">>)

\* createAsset without its validate() guard: every entity goes to repository.save.
CreateAssetUnguarded ==
    /\ \E ref \in Constructed :
          LET out == SaveOutcome(heap, storage, localStorage, ref, TRUE)
          IN  /\ out.ok => Len(assets) < MaxAssets
              /\ heap' = out.heap
              /\ storage' = out.storage
              /\ localStorage' = out.localStorage
              /\ assets' = IF out.ok THEN Append(assets, ref) ELSE assets
              /\ error' = out.message
              /\ last' = [op |-> "createAsset", ref |-> ref, saveCalled |-> TRUE,
                          saved |-> out.ok]
    /\ loading' = FALSE
    /\ UNCHANGED mutations
    /\ FiltersUnchanged

\* store.createAsset(asset)
CreateAsset ==
    /\ \E ref \in Constructed :
          LET checked == [heap EXCEPT ![ref] = Validate(@)]
              out == SaveOutcome(checked, storage, localStorage, ref, TRUE)
          IN  IF ~ValidateResult(heap[ref])
              THEN /\ heap' = checked
                   /\ error' = ValidationMessage(checked[ref])
                   /\ UNCHANGED <<storage, localStorage, assets>>
                   /\ last' = [op |-> "createAsset", ref |-> ref, saveCalled |-> FALSE,
                               saved |-> FALSE]
              ELSE /\ Len(assets) < MaxAssets
                   /\ heap' = out.heap
                   /\ storage' = out.storage
                   /\ localStorage' = out.localStorage
                   /\ assets' = IF out.ok THEN Append(assets, ref) ELSE assets
                   /\ error' = out.message
                   /\ last' = [op |-> "createAsset", ref |-> ref, saveCalled |-> TRUE,
                               saved |-> out.ok]
    /\ loading' = FALSE
    /\ UNCHANGED mutations
    /\ FiltersUnchanged

\* updateAsset putting the entity back as it was when validation fails.
UpdateAssetReverting ==
    /\ \E id \in Ids, updates \in UpdatePool :
          LET ref == StorageGet(storage, id)
              updated == [heap EXCEPT ![ref] = Validate(ApplyUpdates(@, updates))]
              out == SaveOutcome(updated, storage, localStorage, ref, TRUE)
              index == FindIndex(assets, out.heap, id)
          IN  IF ref = 0
              THEN /\ error' = NotFoundMessage(id)
                   /\ UNCHANGED <<heap, storage, localStorage, assets>>
                   /\ last' = [op |-> "updateAsset", id |-> id, found |-> FALSE,
                               saved |-> FALSE]
              ELSE IF ~ValidateResult(ApplyUpdates(heap[ref], updates))
                   THEN /\ heap' = heap
                        /\ error' = ValidationMessage(updated[ref])
                        /\ UNCHANGED <<storage, localStorage, assets>>
                        /\ last' = [op |-> "updateAsset", id |-> id, found |-> TRUE,
                                    saved |-> FALSE]
                   ELSE /\ heap' = out.heap
                        /\ storage' = out.storage
                        /\ localStorage' = out.localStorage
                        /\ assets' = IF out.ok /\ index # 0
                                     THEN [assets EXCEPT ![index] = ref]
                                     ELSE assets
                        /\ error' = out.message
                        /\ last' = [op |-> "updateAsset", id |-> id, found |-> TRUE,
                                    saved |-> out.ok]
    /\ loading' = FALSE
    /\ UNCHANGED mutations
    /\ FiltersUnchanged

\* store.updateAsset(id, updates), the updates taken from a pool
UpdateAssetFrom(pool) ==
    /\ \E id \in Ids, updates \in pool :
          LET ref == StorageGet(storage, id)
              updated == [heap EXCEPT ![ref] = Validate(ApplyUpdates(@, updates))]
              out == SaveOutcome(updated, storage, localStorage, ref, TRUE)
              index == FindIndex(assets, out.heap, id)
          IN  IF ref = 0
              THEN /\ error' = NotFoundMessage(id)
                   /\ UNCHANGED <<heap, storage, localStorage, assets>>
                   /\ last' = [op |-> "updateAsset", id |-> id, found |-> FALSE,
                               saved |-> FALSE]
              ELSE IF ~ValidateResult(ApplyUpdates(heap[ref], updates))
                   THEN /\ heap' = updated
                        /\ error' = ValidationMessage(updated[ref])
                        /\ UNCHANGED <<storage, localStorage, assets>>
                        /\ last' = [op |-> "updateAsset", id |-> id, found |-> TRUE,
                                    saved |-> FALSE]
                   ELSE /\ heap' = out.heap
                        /\ storage' = out.storage
                        /\ localStorage' = out.localStorage
                        /\ assets' = IF out.ok /\ index # 0
                                     THEN [assets EXCEPT ![index] = ref]
                                     ELSE assets
                        /\ error' = out.message
                        /\ last' = [op |-> "updateAsset", id |-> id, found |-> TRUE,
                                    saved |-> out.ok]
    /\ loading' = FALSE
    /\ UNCHANGED mutations
    /\ FiltersUnchanged

\* store.updateAsset(id, updates)
UpdateAsset == UpdateAssetFrom(UpdatePool)

\* store.deleteAsset(id)
DeleteAsset ==
    /\ \E id \in Ids :
          LET out == DeleteOutcome(heap, storage, localStorage, id, TRUE)
              index == FindIndex(assets, heap, id)
          IN  /\ storage' = out.storage
              /\ localStorage' = out.localStorage
              /\ error' = IF out.result THEN Null ELSE DeleteFailedMessage
              /\ assets' = IF out.result /\ index # 0 THEN RemoveAt(assets, index)
                           ELSE assets
              /\ last' = [op |-> "deleteAsset", id |-> id, result |-> out.result]
    /\ loading' = FALSE
    /\ UNCHANGED <<heap, mutations>>
    /\ FiltersUnchanged

\* MedicalDataGenerator.generateAssetWithEquipment for the first equipment of
\* hospital-1 (Ventilator): the quantity is the generator's random stock level.
Ventilator == Str(<<"V", "e", "n", "t">>)
LifeSupport == Str(<<"L", "i", "f", "e">>)
SampleQuantities == {Num(1), Num(3)}
SamplePartial(ref, quantity) ==
    [id |-> GenerateId(ref), name |-> Ventilator, manufacturer |-> MedTech,
     category |-> LifeSupport, serialNumber |-> ValidSerial, quantity |-> quantity,
     reorderPoint |-> Num(5), lastMaintenance |-> Date(1), location |-> ICU,
     condition |-> Str(<<"N", "e", "w">>),
     customFields |-> Obj([purchasePrice |-> Num(45000), department |-> ICU,
                           warrantyExpiry |-> Date(2), lastCalibration |-> Undef])]

\* loadAssets' sample path: n samples constructed and saved one after the other;
\* a rejected save ends it (the await throws into the catch).
RECURSIVE SaveSamples(_, _, _, _)
SaveSamples(state, quantities, writes, n) ==
    IF n = 0 THEN state
    ELSE LET prev == SaveSamples(state, quantities, writes, n - 1)
             free == {r \in Refs : prev.heap[r] = NoEntity}
             ref == CHOOSE r \in free : \A x \in free : r <= x
             made == [prev.heap EXCEPT
                        ![ref] = NewHospitalAsset(SamplePartial(ref, quantities[n]),
                                                  "hospital-1", ref)]
             out == SaveOutcome(made, prev.storage, prev.localStorage, ref, writes[n])
         IN  IF ~prev.ok THEN prev ELSE out

\* A loadAssets that assigns the working set only after it generated samples.
LoadAssetsKeepingWorkingSet ==
    /\ storage = <<>> => Cardinality(Free) >= SampleCount
    /\ \E quantities \in [1..SampleCount -> SampleQuantities] :
          LET writes == [i \in 1..SampleCount |-> TRUE]
              start == [ok |-> TRUE, message |-> Null, heap |-> heap,
                        storage |-> storage, localStorage |-> localStorage]
              out == IF storage = <<>>
                     THEN SaveSamples(start, quantities, writes, SampleCount)
                     ELSE start
          IN  /\ heap' = out.heap
              /\ storage' = out.storage
              /\ localStorage' = out.localStorage
              /\ assets' = IF storage = <<>> THEN FindAll(out.storage) ELSE assets
              /\ error' = out.message
              /\ last' = [op |-> "loadAssets", ok |-> out.ok,
                          generated |-> storage = <<>>]
    /\ loading' = FALSE
    /\ UNCHANGED mutations
    /\ FiltersUnchanged

\* store.loadAssets() (and refreshData, which only calls it)
LoadAssets ==
    /\ storage = <<>> => Cardinality(Free) >= SampleCount
    /\ \E quantities \in [1..SampleCount -> SampleQuantities] :
          LET writes == [i \in 1..SampleCount |-> TRUE]
              start == [ok |-> TRUE, message |-> Null, heap |-> heap,
                        storage |-> storage, localStorage |-> localStorage]
              out == IF storage = <<>>
                     THEN SaveSamples(start, quantities, writes, SampleCount)
                     ELSE start
          IN  /\ heap' = out.heap
              /\ storage' = out.storage
              /\ localStorage' = out.localStorage
              /\ assets' = IF out.ok THEN FindAll(out.storage) ELSE <<>>
              /\ error' = out.message
              /\ last' = [op |-> "loadAssets", ok |-> out.ok,
                          generated |-> storage = <<>>]
    /\ loading' = FALSE
    /\ UNCHANGED mutations
    /\ FiltersUnchanged

\* The store and its callers; durable writes succeed.
Next ==
    \/ Construct
    \/ CreateAsset
    \/ UpdateAsset
    \/ DeleteAsset
    \/ LoadAssets

Spec == Init /\ [][Next]_vars

\* The store once its first loadAssets has succeeded over the empty repository,
\* and the calls that create, update and delete one at a time after it.
InitLoaded ==
    /\ \E quantities \in [1..SampleCount -> SampleQuantities] :
          LET start == [ok |-> TRUE, message |-> Null, heap |-> [r \in Refs |-> NoEntity],
                        storage |-> <<>>, localStorage |-> Null]
              out == SaveSamples(start, quantities, [i \in 1..SampleCount |-> TRUE],
                                 SampleCount)
          IN  /\ heap = out.heap
              /\ storage = out.storage
              /\ localStorage = out.localStorage
              /\ assets = FindAll(out.storage)
    /\ loading = FALSE
    /\ error = Null
    /\ activeFilter = "all"
    /\ searchQuery = Str(<<>>)
    /\ selectedCategory = Null
    /\ sortBy = "name"
    /\ sortDirection = "asc"
    /\ calls = <<>>
    /\ last = [op |-> "loadAssets", ok |-> TRUE, generated |-> TRUE]
    /\ mutations = 0

NextLoaded ==
    \/ Construct
    \/ CreateAsset
    \/ UpdateAsset
    \/ DeleteAsset

SpecLoaded == InitLoaded /\ [][NextLoaded]_vars

\* The store's operations and the repository's deleteAll (the tests' reset);
\* durable writes succeed.
NextDurable ==
    \/ Construct
    \/ CreateAsset
    \/ UpdateAsset
    \/ DeleteAsset
    \/ LoadAssets
    \/ RepoDeleteAll

SpecDurable == Init /\ [][NextDurable]_vars

\* The repository and its callers; a durable write may fail.
NextRepo ==
    \/ RepoConstruct
    \/ EntitySet
    \/ RepoSave
    \/ RepoDelete
    \/ RepoDeleteAll
    \/ RepoReload

SpecRepo == InitRepo /\ [][NextRepo]_vars

\* bulkSave and deleteAll over entities that are constructed already, each as
\* its partial gives it or with its serial number emptied.
InitBulk ==
    /\ \E emptied \in SUBSET RepoRefs :
          heap = [r \in RepoRefs |->
                    LET e == NewHospitalAsset(RepoPartial(r), "default", r)
                    IN  IF r \in emptied THEN SetField(e, "serialNumber", Str(<<>>)) ELSE e]
    /\ StoreIdle
    /\ last = [op |-> "init"]
    /\ mutations = 0

NextBulk ==
    \/ RepoBulkSave
    \/ RepoDeleteAll

SpecBulk == InitBulk /\ [][NextBulk]_vars

(***************************************************************************)
(* SpecIds: the store with callers whose updates name the key 'id'.        *)
(***************************************************************************)
IdUpdatePool == { << <<<<"id">>, NoSuchId>>, <<<<"quantity">>, Num(9)>> >> }

\* store.updateAsset(id, { id: ..., ... })
UpdateAssetId == UpdateAssetFrom(IdUpdatePool)

NextIds ==
    \/ Construct
    \/ CreateAsset
    \/ UpdateAssetId
    \/ DeleteAsset

SpecIds == Init /\ [][NextIds]_vars

(***************************************************************************)
(* SpecFaults: the store against a repository whose calls may reject, as   *)
(* the store's unit tests substitute it (mockRejectedValue).               *)
(***************************************************************************)
\* What a rejected repository call was rejected with: an Error or another value.
Rejections ==
    { [instanceOfError |-> TRUE, message |-> Str(<<"Save failed">>)],
      [instanceOfError |-> FALSE, message |-> Undef] }

\* e instanceof Error ? e.message : fallback
CaughtMessage(e, fallback) == IF e.instanceOfError THEN e.message ELSE Str(<<fallback>>)

\* A try block that covers the saves only.
TryCoversSavesOnly(call) == call = "save"

\* The repository calls the operations make are all inside their try blocks.
TryCovers(call) == call \in {"findAll", "save", "findAllAgain", "findById", "delete"}

\* loadAssets' catch block without the reset of the working set.
LoadAssetsRejectedKeepsAssets ==
    /\ \E e \in Rejections, call \in {"findAll", "save", "findAllAgain"} :
          /\ call # "findAll" => storage = <<>> /\ Cardinality(Free) >= SampleCount
          /\ \E quantities \in [1..SampleCount -> SampleQuantities] :
                LET start == [ok |-> TRUE, message |-> Null, heap |-> heap,
                              storage |-> storage, localStorage |-> localStorage]
                    out == IF call = "findAllAgain"
                           THEN SaveSamples(start, quantities,
                                            [i \in 1..SampleCount |-> TRUE], SampleCount)
                           ELSE start
                IN  /\ heap' = out.heap
                    /\ storage' = out.storage
                    /\ localStorage' = out.localStorage
          /\ error' = IF TryCovers(call) THEN CaughtMessage(e, "Failed to load assets") ELSE Null
          /\ last' = [op |-> "loadAssets", ok |-> FALSE, rejected |-> call,
                      with |-> e, held |-> Len(assets), propagated |-> ~TryCovers(call)]
    /\ UNCHANGED assets
    /\ loading' = FALSE
    /\ UNCHANGED mutations
    /\ FiltersUnchanged

\* store.loadAssets() when the first findAll, the save of the first sample, or
\* the findAll after the samples were saved rejects.
LoadAssetsRejected ==
    /\ \E e \in Rejections, call \in {"findAll", "save", "findAllAgain"} :
          /\ call # "findAll" => storage = <<>> /\ Cardinality(Free) >= SampleCount
          /\ \E quantities \in [1..SampleCount -> SampleQuantities] :
                LET start == [ok |-> TRUE, message |-> Null, heap |-> heap,
                              storage |-> storage, localStorage |-> localStorage]
                    out == IF call = "findAllAgain"
                           THEN SaveSamples(start, quantities,
                                            [i \in 1..SampleCount |-> TRUE], SampleCount)
                           ELSE start
                IN  /\ heap' = out.heap
                    /\ storage' = out.storage
                    /\ localStorage' = out.localStorage
          /\ error' = IF TryCovers(call) THEN CaughtMessage(e, "Failed to load assets") ELSE Null
          /\ last' = [op |-> "loadAssets", ok |-> FALSE, rejected |-> call,
                      with |-> e, held |-> Len(assets), propagated |-> ~TryCovers(call)]
    /\ assets' = <<>>
    /\ loading' = FALSE
    /\ UNCHANGED mutations
    /\ FiltersUnchanged

\* store.createAsset(asset) when repository.save rejects (the asset is valid:
\* an invalid one returns before the call).
CreateAssetRejected ==
    /\ \E e \in Rejections, ref \in Constructed :
          /\ ValidateResult(heap[ref])
          /\ heap' = [heap EXCEPT ![ref] = Validate(@)]
          /\ error' = IF TryCovers("save") THEN CaughtMessage(e, "Failed to create asset") ELSE Null
          /\ last' = [op |-> "createAsset", ref |-> ref, saveCalled |-> TRUE,
                      saved |-> FALSE, rejected |-> "save", with |-> e,
                      propagated |-> ~TryCovers("save")]
    /\ UNCHANGED <<storage, localStorage, assets, mutations>>
    /\ loading' = FALSE
    /\ FiltersUnchanged

\* store.updateAsset(id, updates) when repository.findById rejects, or when
\* repository.save rejects after the updates were applied and validated.
UpdateAssetRejected ==
    /\ \E e \in Rejections, call \in {"findById", "save"}, id \in Ids, updates \in UpdatePool :
          LET ref == StorageGet(storage, id)
          IN  /\ call = "save" => ref # 0 /\ ValidateResult(ApplyUpdates(heap[ref], updates))
              /\ heap' = IF call = "save"
                         THEN [heap EXCEPT ![ref] = Validate(ApplyUpdates(@, updates))]
                         ELSE heap
              /\ error' = IF TryCovers(call) THEN CaughtMessage(e, "Failed to update asset") ELSE Null
              /\ last' = [op |-> "updateAsset", id |-> id, found |-> call = "save",
                          saved |-> FALSE, rejected |-> call, with |-> e,
                          propagated |-> ~TryCovers(call)]
    /\ UNCHANGED <<storage, localStorage, assets, mutations>>
    /\ loading' = FALSE
    /\ FiltersUnchanged

\* store.deleteAsset(id) when repository.delete rejects.
DeleteAssetRejected ==
    /\ \E e \in Rejections, id \in Ids :
          /\ error' = IF TryCovers("delete") THEN CaughtMessage(e, "Failed to delete asset") ELSE Null
          /\ last' = [op |-> "deleteAsset", id |-> id, result |-> FALSE,
                      rejected |-> "delete", with |-> e, propagated |-> ~TryCovers("delete")]
    /\ UNCHANGED <<heap, storage, localStorage, assets, mutations>>
    /\ loading' = FALSE
    /\ FiltersUnchanged

\* The store up to its first rejected repository call.
NoCallRejected == "rejected" \notin DOMAIN last

NextFaults ==
    \/ NoCallRejected /\ Construct
    \/ NoCallRejected /\ CreateAsset
    \/ NoCallRejected /\ UpdateAsset
    \/ NoCallRejected /\ DeleteAsset
    \/ NoCallRejected /\ LoadAssets
    \/ NoCallRejected /\ LoadAssetsRejected
    \/ NoCallRejected /\ CreateAssetRejected
    \/ NoCallRejected /\ UpdateAssetRejected
    \/ NoCallRejected /\ DeleteAssetRejected

SpecFaults == Init /\ [][NextFaults]_vars

(***************************************************************************)
(* SpecView: a working set of saved entities, and the store's filter and   *)
(* sort settings changed through its setters and exposed refs.             *)
(***************************************************************************)
A3 == Str(<<"a", "3">>)
A4 == Str(<<"a", "4">>)
Acme == Str(<<"A", "c", "m", "e">>)
XraySerial == Str(<<"X", "R", "-", "0", "0", "0", "0", "0", "1">>)

\* The entities on view: low stock only, critical by quantity only, tagged
\* critical and low stock, and neither.
ViewPartials ==
    << [id |-> A1, name |-> ECG, manufacturer |-> MedTech, category |-> Cardiology,
        quantity |-> Num(2), serialNumber |-> ValidSerial, reorderPoint |-> Num(3)],
       [id |-> A2, name |-> Xray, manufacturer |-> Acme, category |-> Radiology,
        quantity |-> Num(0), serialNumber |-> XraySerial, reorderPoint |-> Num(10)],
       [id |-> A3, name |-> Str(<<"e", "c", "g">>), manufacturer |-> Acme,
        category |-> Cardiology, quantity |-> Num(8), serialNumber |-> ValidSerial,
        reorderPoint |-> Num(10), criticalLevel |-> Critical],
       [id |-> A4, name |-> Str(<<"S", "c", "a", "n">>), manufacturer |-> MedTech,
        category |-> Radiology, quantity |-> Num(20), serialNumber |-> XraySerial,
        reorderPoint |-> Num(5)] >>

ViewRefs == 1..Len(ViewPartials)
ViewHeap == [r \in ViewRefs |-> NewHospitalAsset(ViewPartials[r], "default", r)]

\* The working sets createAsset can have built from these entities.
ViewWorkingSets == UNION {[1..n -> ViewRefs] : n \in 0..MaxViewAssets}

\* The Map after the entities of a working set were saved in its order.
RECURSIVE SavedInOrder(_, _)
SavedInOrder(as, hp) ==
    IF as = <<>> THEN <<>>
    ELSE StorageSet(SavedInOrder(SubSeq(as, 1, Len(as) - 1), hp),
                    hp[as[Len(as)]].data.id, as[Len(as)])

QueryPool ==
    { Str(<<>>), Str(<<"E", "C">>), Str(<<"r", "a", "y">>), Str(<<"a", "b", "-">>),
      Str(<<"a", "c", "m", "e">>) }
CategoryPool == {Null, Str(<<>>), Cardiology}
FilterPool == {"all", "critical", "lowStock"}
SortByPool == {"name", "quantity", "category"}
SortDirectionPool == {"asc", "desc"}

InitView ==
    /\ heap = ViewHeap
    /\ assets \in ViewWorkingSets
    /\ storage = SavedInOrder(assets, heap)
    /\ localStorage = IF assets = <<>> THEN Null ELSE Snapshot(storage, heap)
    /\ loading = FALSE
    /\ error = Null
    /\ activeFilter = "all"
    /\ searchQuery = Str(<<>>)
    /\ selectedCategory = Null
    /\ sortBy = "name"
    /\ sortDirection = "asc"
    /\ last = [op |-> "init"]
    /\ mutations = 0
    /\ calls = <<>>

ViewFrame ==
    UNCHANGED <<heap, storage, localStorage, assets, loading, error, mutations, calls>>

\* store.setSearchQuery(query)
SetSearchQuery ==
    /\ \E query \in QueryPool :
          /\ searchQuery' = query
          /\ last' = [op |-> "setSearchQuery", query |-> query]
    /\ UNCHANGED <<activeFilter, selectedCategory, sortBy, sortDirection>>
    /\ ViewFrame

\* store.setCategory(category)
SetCategory ==
    /\ \E category \in CategoryPool :
          /\ selectedCategory' = category
          /\ last' = [op |-> "setCategory", category |-> category]
    /\ UNCHANGED <<activeFilter, searchQuery, sortBy, sortDirection>>
    /\ ViewFrame

\* store.setActiveFilter(filter)
SetActiveFilter ==
    /\ \E filter \in FilterPool :
          /\ activeFilter' = filter
          /\ last' = [op |-> "setActiveFilter", filter |-> filter]
    /\ UNCHANGED <<searchQuery, selectedCategory, sortBy, sortDirection>>
    /\ ViewFrame

\* store.clearFilters()
ClearFilters ==
    /\ searchQuery' = Str(<<>>)
    /\ selectedCategory' = Null
    /\ activeFilter' = "all"
    /\ last' = [op |-> "clearFilters"]
    /\ UNCHANGED <<sortBy, sortDirection>>
    /\ ViewFrame

\* A clearSearch that resets the special filter as clearFilters does.
ClearSearchAndFilter ==
    /\ searchQuery' = Str(<<>>)
    /\ selectedCategory' = Null
    /\ activeFilter' = "all"
    /\ last' = [op |-> "clearSearch"]
    /\ UNCHANGED <<sortBy, sortDirection>>
    /\ ViewFrame

\* store.clearSearch()
ClearSearch ==
    /\ searchQuery' = Str(<<>>)
    /\ selectedCategory' = Null
    /\ last' = [op |-> "clearSearch"]
    /\ UNCHANGED <<activeFilter, sortBy, sortDirection>>
    /\ ViewFrame

\* repository.search(query): findAll filtered, in the Map's order.
RepoSearch ==
    /\ \E query \in QueryPool \cup {Str(<<"R", "A", "D">>)} :
          last' = [op |-> "search", query |-> query,
                   result |-> SelectSeq([i \in 1..Len(storage) |-> storage[i].ref],
                                        LAMBDA r : SearchMatches(heap[r], query))]
    /\ UNCHANGED <<heap, storage, localStorage, assets, loading, error, mutations>>
    /\ FiltersUnchanged

\* store.sortBy = ... (the ref is exposed)
SetSortBy ==
    /\ \E by \in SortByPool : sortBy' = by
    /\ last' = [op |-> "sortBy"]
    /\ UNCHANGED <<activeFilter, searchQuery, selectedCategory, sortDirection>>
    /\ ViewFrame

\* store.sortDirection = ... (the ref is exposed)
SetSortDirection ==
    /\ \E direction \in SortDirectionPool : sortDirection' = direction
    /\ last' = [op |-> "sortDirection"]
    /\ UNCHANGED <<activeFilter, searchQuery, selectedCategory, sortBy>>
    /\ ViewFrame

\* A read of store.filteredAssets: the computed filters and sorts a copy of the
\* working set ([...assets.value]); the working set is the array it was.
ReadFilteredAssets ==
    /\ last' = [op |-> "filteredAssets"]
    /\ assets' = [i \in 1..Len(assets) |-> assets[i]]
    /\ UNCHANGED <<heap, storage, localStorage, loading, error, mutations>>
    /\ FiltersUnchanged

NextView ==
    \/ ReadFilteredAssets
    \/ SetSearchQuery
    \/ SetCategory
    \/ SetActiveFilter
    \/ ClearFilters
    \/ ClearSearch
    \/ SetSortBy
    \/ SetSortDirection
    \/ RepoSearch

SpecView == InitView /\ [][NextView]_vars

(***************************************************************************)
(* SpecModel: one entity, constructed from every combination of the input  *)
(* pools, then validated, classified and mutated through its accessors.    *)
(***************************************************************************)
NamePool ==
    {Undef, Str(<<" ">>), ECG, Str(Repeat("a", MaxNameLength)),
     Str(Repeat("a", MaxNameLength + 1))}
QuantityPool ==
    {Undef, Null, Num(-1), Num(3), Num(8), Half(2), Num(MaxQuantity),
     Num(MaxQuantity + 1)}
SerialPool ==
    {Undef, ValidSerial, Str(<<"I", "N", "V", "A", "L", "I", "D">>),
     Str(<<"a", "b", "-", "1", "2", "3", "4", "5", "6">>),
     Str(<<"A", "B", "-", "1", "2", "3", "4", "5", "6", "7">>)}
ReorderPool == {Undef, Num(-1), Num(0), Num(3)}
LevelPool == {Undef, Critical, Essential}
CustomPool ==
    {Undef, Obj([requiredCustom |-> Str(<<"x">>)]), Obj([requiredCustom |-> Str(<<>>)])}
PricePool == {Undef, Num(500)}

\* A constructor argument: the keys whose pool value is undefined are absent.
Partial(fields) == [k \in {x \in DOMAIN fields : fields[x] # Undef} |-> fields[k]]

\* The stock fields in every combination, the other fields valid.
StockPartials ==
    {Partial([name |-> ECG, manufacturer |-> MedTech, quantity |-> q,
              serialNumber |-> ValidSerial, reorderPoint |-> r, criticalLevel |-> l]) :
        q \in QuantityPool, r \in ReorderPool, l \in LevelPool}

\* The validated fields in every combination.
FieldPartials ==
    {Partial([name |-> n, manufacturer |-> MedTech, quantity |-> q,
              serialNumber |-> s, reorderPoint |-> r]) :
        n \in NamePool, q \in QuantityPool, s \in SerialPool, r \in ReorderPool}

\* The schema-required fields in every combination, over a valid and two
\* invalid base records.
HospitalPartials ==
    {Partial([name |-> n, manufacturer |-> MedTech, quantity |-> q,
              serialNumber |-> ValidSerial, category |-> c, customFields |-> f,
              purchasePrice |-> p]) :
        n \in {Undef, ECG}, q \in {Null, Num(-1), Num(3)}, c \in {Undef, Cardiology},
        f \in CustomPool, p \in PricePool}

ModelEntities ==
    {NewAsset(b, 1) : b \in StockPartials \cup FieldPartials}
    \cup {NewHospitalAsset(b, c, 1) : b \in HospitalPartials, c \in ConfigIds}

\* What the accessors are called with.
SetPool ==
    { <<"name", Undef>>, <<"name", ECG>>,
      <<"quantity", Undef>>, <<"quantity", Num(2)>>, <<"quantity", Num(-5)>>,
      <<"serialNumber", Null>>, <<"serialNumber", ValidSerial>>,
      <<"reorderPoint", Num(-1)>>, <<"reorderPoint", Num(10)>>,
      <<"criticalLevel", Critical>>, <<"criticalLevel", Routine>> }
CustomSetPool ==
    { <<"requiredCustom", Str(<<"x">>)>>, <<"requiredCustom", Null>>,
      <<"category", Cardiology>>, <<"purchasePrice", Num(750)>> }

InitModel ==
    /\ \E e \in ModelEntities : heap = [r \in Refs |-> IF r = 1 THEN e ELSE NoEntity]
    /\ StoreIdle
    /\ last = [op |-> "new"]
    /\ mutations = 0

\* entity.validate()
ModelValidate ==
    /\ heap' = [heap EXCEPT ![1] = Validate(@)]
    /\ last' = [op |-> "validate", result |-> ValidateResult(heap[1]),
                before |-> heap[1].data]
    /\ UNCHANGED mutations
    /\ StoreUnchanged

\* entity.isLowStock() and entity.isCritical()
ModelClassify ==
    /\ last' = [op |-> "classify", lowStock |-> IsLowStock(heap[1]),
                critical |-> IsCritical(heap[1])]
    /\ UNCHANGED <<heap, mutations>>
    /\ StoreUnchanged

\* entity.set(key, value)
ModelSet ==
    /\ mutations < MaxSets
    /\ \E kv \in SetPool :
          /\ heap' = [heap EXCEPT ![1] = SetField(@, kv[1], kv[2])]
          /\ last' = [op |-> "set", key |-> kv[1]]
    /\ mutations' = mutations + 1
    /\ StoreUnchanged

\* entity.setCustomField(key, value)
ModelSetCustomField ==
    /\ mutations < MaxSets
    /\ heap[1].cls = "HospitalAsset"
    /\ \E kv \in CustomSetPool :
          /\ heap' = [heap EXCEPT ![1] = SetCustomField(@, kv[1], kv[2])]
          /\ last' = [op |-> "setCustomField", key |-> kv[1]]
    /\ mutations' = mutations + 1
    /\ StoreUnchanged

\* entity.markAsClean()
ModelMarkAsClean ==
    /\ heap[1].isDirty
    /\ heap' = [heap EXCEPT ![1] = MarkAsClean(@)]
    /\ last' = [op |-> "markAsClean"]
    /\ UNCHANGED mutations
    /\ StoreUnchanged

NextModel ==
    \/ ModelValidate
    \/ ModelClassify
    \/ ModelSet
    \/ ModelSetCustomField
    \/ ModelMarkAsClean

SpecModel == InitModel /\ [][NextModel]_vars

(***************************************************************************)
(* SpecSerial: an entity with or without its date fields, serialized,      *)
(* constructed again from the record, and serialized again.                *)
(***************************************************************************)
SerialPartials ==
    {Partial([id |-> A1, name |-> ECG, manufacturer |-> MedTech, category |-> Cardiology,
              quantity |-> q, serialNumber |-> ValidSerial, lastMaintenance |-> m,
              expiryDate |-> x, warrantyExpiry |-> w, lastCalibration |-> c,
              purchasePrice |-> p, location |-> l]) :
        q \in {Num(0), Num(3)}, m \in {Undef, Date(1)}, x \in {Undef, Date(2)},
        w \in {Undef, Date(3)}, c \in {Undef, Date(4)}, p \in PricePool, l \in {Undef, ICU}}

SerialEntities ==
    {NewAsset(b, 1) : b \in SerialPartials}
    \cup {NewHospitalAsset(b, "default", 1) : b \in SerialPartials}

InitSerial ==
    /\ \E e \in SerialEntities : heap = [r \in Refs |-> IF r = 1 THEN e ELSE NoEntity]
    /\ StoreIdle
    /\ last = [op |-> "new"]
    /\ mutations = 0

\* new Asset(a.serialize()) / new HospitalAsset(a.serialize(), config)
SerializeAndReconstruct ==
    /\ heap[2] = NoEntity
    /\ ~SerializeThrows(heap[1])
    /\ LET record == Serialize(heap[1])
       IN  /\ heap' = [heap EXCEPT ![2] = IF heap[1].cls = "HospitalAsset"
                                          THEN NewHospitalAsset(record, heap[1].config, 2)
                                          ELSE NewAsset(record, 2)]
           /\ last' = [op |-> "reconstruct", record |-> record]
    /\ UNCHANGED mutations
    /\ StoreUnchanged

\* serialize() of the reconstructed entity
SerializeAgain ==
    /\ heap[2] # NoEntity
    /\ last' = [op |-> "serialize", threw |-> SerializeThrows(heap[2]),
                record |-> Serialize(heap[2])]
    /\ UNCHANGED <<heap, mutations>>
    /\ StoreUnchanged

NextSerial ==
    \/ SerializeAndReconstruct
    \/ SerializeAgain

SpecSerial == InitSerial /\ [][NextSerial]_vars

(***************************************************************************)
(* SpecAsync: the store's operations as the event loop runs them.  An      *)
(* async function runs up to its first await when it is called and is      *)
(* resumed later; between the two, other calls may begin or be resumed.    *)
(* A repository method without an await of its own (findAll, findById,     *)
(* delete) has done its work when the store's await suspends; save is      *)
(* suspended at `await this.beforeSave(model)`, and its continuation       *)
(* (storage.set, afterSave, saveToLocalStorage) is taken together with the *)
(* store's continuation, which is the only part that writes the flags.     *)
(***************************************************************************)
MaxCalls == 2       \* store calls suspended at one time

AsyncIds == {A1, NoSuchId}
NoCall == [op |-> "none", at |-> "none", ref |-> 0, id |-> Null, updates |-> <<>>,
           data |-> <<>>, success |-> FALSE]
CallsOf(op, at) == {i \in 1..Len(calls) : calls[i].op = op /\ calls[i].at = at}
CreatesInFlight == Cardinality(CallsOf("createAsset", "save"))

\* What a step of a store call leaves in `last`: the operation, whether the step
\* suspended the call or ended it, and the flags the call found on entry.
Entered(op, step) == [op |-> op, step |-> step, cleared |-> error, idle |-> ~loading]
Resumed(op, step) == [op |-> op, step |-> step, cleared |-> Null, idle |-> FALSE]

AsyncFrame ==
    UNCHANGED <<mutations, activeFilter, searchQuery, selectedCategory, sortBy, sortDirection>>

InitAsync ==
    /\ \E partial \in StorePartials :
          heap = [r \in Refs |-> IF r = 1 THEN NewHospitalAsset(partial, "default", 1)
                                  ELSE NoEntity]
    /\ StoreIdle
    /\ last = [op |-> "init", step |-> "init", cleared |-> Null, idle |-> TRUE]
    /\ mutations = 0

\* createAsset(asset) up to `await repository.save(asset)`; an invalid asset
\* returns before any await.
CreateAssetBegin ==
    /\ Len(calls) < MaxCalls
    /\ Len(assets) + CreatesInFlight < MaxAssets
    /\ \E ref \in Constructed :
          /\ heap' = [heap EXCEPT ![ref] = Validate(@)]
          /\ IF ~ValidateResult(heap[ref])
             THEN /\ error' = ValidationMessage(heap'[ref])
                  /\ loading' = FALSE
                  /\ calls' = calls
                  /\ last' = Entered("createAsset", "return")
             ELSE /\ error' = Null
                  /\ loading' = TRUE
                  /\ calls' = Append(calls, [NoCall EXCEPT !.op = "createAsset",
                                                           !.at = "save", !.ref = ref])
                  /\ last' = Entered("createAsset", "begin")
    /\ UNCHANGED <<storage, localStorage, assets>>
    /\ AsyncFrame

\* createAsset resumed leaving the flag as it is.
CreateAssetResumeWithoutFinally ==
    /\ \E i \in CallsOf("createAsset", "save") :
          LET ref == calls[i].ref
              st2 == StorageSet(storage, heap[ref].data.id, ref)
              hp2 == [heap EXCEPT ![ref] = MarkAsClean(@)]
          IN  /\ heap' = hp2
              /\ storage' = st2
              /\ localStorage' = SaveToLocalStorage(st2, hp2, localStorage, TRUE)
              /\ assets' = Append(assets, ref)
              /\ calls' = RemoveAt(calls, i)
    /\ loading' = loading
    /\ last' = Resumed("createAsset", "return")
    /\ UNCHANGED error
    /\ AsyncFrame

\* createAsset after repository.save resolved: assets.push, finally.
CreateAssetResume ==
    /\ \E i \in CallsOf("createAsset", "save") :
          LET ref == calls[i].ref
              st2 == StorageSet(storage, heap[ref].data.id, ref)
              hp2 == [heap EXCEPT ![ref] = MarkAsClean(@)]
          IN  /\ heap' = hp2
              /\ storage' = st2
              /\ localStorage' = SaveToLocalStorage(st2, hp2, localStorage, TRUE)
              /\ assets' = Append(assets, ref)
              /\ calls' = RemoveAt(calls, i)
    /\ loading' = FALSE
    /\ last' = Resumed("createAsset", "return")
    /\ UNCHANGED error
    /\ AsyncFrame

\* updateAsset beginning without resetting the error.
UpdateAssetBeginKeepingError ==
    /\ Len(calls) < MaxCalls
    /\ \E id \in AsyncIds, updates \in UpdatePool :
          calls' = Append(calls, [NoCall EXCEPT !.op = "updateAsset", !.at = "findById",
                                                !.id = id, !.updates = updates,
                                                !.ref = StorageGet(storage, id)])
    /\ loading' = TRUE
    /\ error' = error
    /\ last' = Entered("updateAsset", "begin")
    /\ UNCHANGED <<heap, storage, localStorage, assets>>
    /\ AsyncFrame

\* updateAsset(id, updates) up to `await repository.findById(id)`.
UpdateAssetBegin ==
    /\ Len(calls) < MaxCalls
    /\ \E id \in AsyncIds, updates \in UpdatePool :
          calls' = Append(calls, [NoCall EXCEPT !.op = "updateAsset", !.at = "findById",
                                                !.id = id, !.updates = updates,
                                                !.ref = StorageGet(storage, id)])
    /\ loading' = TRUE
    /\ error' = Null
    /\ last' = Entered("updateAsset", "begin")
    /\ UNCHANGED <<heap, storage, localStorage, assets>>
    /\ AsyncFrame

\* updateAsset from findById's result up to `await repository.save(asset)`, or
\* to its return when the asset is missing or the updated asset is invalid.
UpdateAssetResume ==
    /\ \E i \in CallsOf("updateAsset", "findById") :
          LET ref == calls[i].ref
              updated == Validate(ApplyUpdates(heap[ref], calls[i].updates))
          IN  IF ref = 0
              THEN /\ error' = NotFoundMessage(calls[i].id)
                   /\ loading' = FALSE
                   /\ calls' = RemoveAt(calls, i)
                   /\ last' = Resumed("updateAsset", "return")
                   /\ UNCHANGED heap
              ELSE IF ~ValidateResult(ApplyUpdates(heap[ref], calls[i].updates))
                   THEN /\ heap' = [heap EXCEPT ![ref] = updated]
                        /\ error' = ValidationMessage(updated)
                        /\ loading' = FALSE
                        /\ calls' = RemoveAt(calls, i)
                        /\ last' = Resumed("updateAsset", "return")
                   ELSE /\ heap' = [heap EXCEPT ![ref] = updated]
                        /\ calls' = [calls EXCEPT ![i].at = "save"]
                        /\ last' = Resumed("updateAsset", "suspend")
                        /\ UNCHANGED <<loading, error>>
    /\ UNCHANGED <<storage, localStorage, assets>>
    /\ AsyncFrame

\* updateAsset after repository.save resolved: the working-set entry is replaced.
UpdateAssetSaved ==
    /\ \E i \in CallsOf("updateAsset", "save") :
          LET ref == calls[i].ref
              st2 == StorageSet(storage, heap[ref].data.id, ref)
              hp2 == [heap EXCEPT ![ref] = MarkAsClean(@)]
              index == FindIndex(assets, hp2, calls[i].id)
          IN  /\ heap' = hp2
              /\ storage' = st2
              /\ localStorage' = SaveToLocalStorage(st2, hp2, localStorage, TRUE)
              /\ assets' = IF index # 0 THEN [assets EXCEPT ![index] = ref] ELSE assets
              /\ calls' = RemoveAt(calls, i)
    /\ loading' = FALSE
    /\ last' = Resumed("updateAsset", "return")
    /\ UNCHANGED error
    /\ AsyncFrame

\* deleteAsset(id) up to `await repository.delete(id)`: delete has no await of
\* its own, so the Map and the snapshot are already changed.
DeleteAssetBegin ==
    /\ Len(calls) < MaxCalls
    /\ \E id \in AsyncIds :
          LET out == DeleteOutcome(heap, storage, localStorage, id, TRUE)
          IN  /\ storage' = out.storage
              /\ localStorage' = out.localStorage
              /\ calls' = Append(calls, [NoCall EXCEPT !.op = "deleteAsset",
                                                       !.at = "delete", !.id = id,
                                                       !.success = out.result])
    /\ loading' = TRUE
    /\ error' = Null
    /\ last' = Entered("deleteAsset", "begin")
    /\ UNCHANGED <<heap, assets>>
    /\ AsyncFrame

\* deleteAsset from delete's result to its return.
DeleteAssetResume ==
    /\ \E i \in CallsOf("deleteAsset", "delete") :
          LET index == FindIndex(assets, heap, calls[i].id)
          IN  /\ error' = IF calls[i].success THEN error ELSE DeleteFailedMessage
              /\ assets' = IF calls[i].success /\ index # 0 THEN RemoveAt(assets, index)
                           ELSE assets
              /\ calls' = RemoveAt(calls, i)
    /\ loading' = FALSE
    /\ last' = Resumed("deleteAsset", "return")
    /\ UNCHANGED <<heap, storage, localStorage>>
    /\ AsyncFrame

\* loadAssets() up to `await repository.findAll()`: the array is already built.
LoadAssetsBegin ==
    /\ Len(calls) < MaxCalls
    /\ calls' = Append(calls, [NoCall EXCEPT !.op = "loadAssets", !.at = "findAll",
                                             !.data = FindAll(storage)])
    /\ loading' = TRUE
    /\ error' = Null
    /\ last' = Entered("loadAssets", "begin")
    /\ UNCHANGED <<heap, storage, localStorage, assets>>
    /\ AsyncFrame

\* loadAssets from findAll's array to its return; for an empty array the sample
\* assets are generated, saved and fetched.
LoadAssetsResume ==
    /\ \E i \in CallsOf("loadAssets", "findAll") :
          /\ calls[i].data = <<>> => Cardinality(Free) >= SampleCount
          /\ \E quantities \in [1..SampleCount -> SampleQuantities] :
                LET writes == [n \in 1..SampleCount |-> TRUE]
                    start == [ok |-> TRUE, message |-> Null, heap |-> heap,
                              storage |-> storage, localStorage |-> localStorage]
                    out == IF calls[i].data = <<>>
                           THEN SaveSamples(start, quantities, writes, SampleCount)
                           ELSE start
                IN  /\ heap' = out.heap
                    /\ storage' = out.storage
                    /\ localStorage' = out.localStorage
                    /\ assets' = IF ~out.ok THEN <<>>
                                 ELSE IF calls[i].data = <<>> THEN FindAll(out.storage)
                                 ELSE calls[i].data
                    /\ error' = IF out.ok THEN error ELSE out.message
          /\ calls' = RemoveAt(calls, i)
    /\ loading' = FALSE
    /\ last' = Resumed("loadAssets", "return")
    /\ AsyncFrame

\* The store's calls, begun and resumed in any order.
NextAsync ==
    \/ CreateAssetBegin
    \/ CreateAssetResume
    \/ UpdateAssetBegin
    \/ UpdateAssetResume
    \/ UpdateAssetSaved
    \/ DeleteAssetBegin
    \/ DeleteAssetResume
    \/ LoadAssetsBegin
    \/ LoadAssetsResume

SpecAsync == InitAsync /\ [][NextAsync]_vars

(***************************************************************************)
(* Claims about the entity (checked under SpecModel).                      *)
(***************************************************************************)
Entity == heap[1]
Classified == last.op = "classify"
Validated == last.op = "validate"
NumericStock(d) == IsNum(d.quantity) /\ IsNum(d.reorderPoint)

\* C5 as stated: isLowStock() and isCritical() are never both true, whatever
\* the quantity, reorderPoint and criticalLevel.
LowStockAndCriticalNeverBoth ==
    Classified => ~(last.lowStock /\ last.critical)

\* C5 as amended: for an asset whose criticalLevel is not 'critical',
\* isLowStock() and isCritical() are never both true.
LowStockAndCriticalNeverBothUntagged ==
    (Classified /\ Entity.data.criticalLevel # Critical)
        => ~(last.lowStock /\ last.critical)

\* C5 witness: an untagged asset was classified and is low-stock.
UntaggedLowStockClassified ==
    /\ Classified
    /\ Entity.data.criticalLevel # Critical
    /\ last.lowStock
    /\ ~last.critical

\* C6: isCritical() is true exactly when criticalLevel is 'critical' or
\* 10 * quantity <= 3 * reorderPoint; the tag alone suffices for any quantity.
CriticalIffTaggedOrAtThirtyPercent ==
    Classified =>
        /\ (Entity.data.criticalLevel = Critical => last.critical)
        /\ NumericStock(Entity.data) =>
              (last.critical <=>
                  \/ Entity.data.criticalLevel = Critical
                  \/ 10 * Entity.data.quantity.h <= 3 * Entity.data.reorderPoint.h)

\* C6 witness: an untagged asset exactly at the 30% mark was found critical.
UntaggedAtThirtyPercentCritical ==
    /\ Classified
    /\ Entity.data.criticalLevel = Routine
    /\ Entity.data.quantity = Num(3)
    /\ Entity.data.reorderPoint = Num(10)
    /\ last.critical

\* C7: isLowStock() is true exactly when quantity < reorderPoint and
\* 10 * quantity > 3 * reorderPoint, for every criticalLevel; an asset tagged
\* critical with quantity 8 and reorderPoint 10 is low-stock and critical.
LowStockIffInBand ==
    Classified =>
        /\ NumericStock(Entity.data) =>
              (last.lowStock <=>
                  /\ Entity.data.quantity.h < Entity.data.reorderPoint.h
                  /\ 10 * Entity.data.quantity.h > 3 * Entity.data.reorderPoint.h)
        /\ (/\ Entity.data.criticalLevel = Critical
            /\ Entity.data.quantity = Num(8)
            /\ Entity.data.reorderPoint = Num(10)) => (last.lowStock /\ last.critical)

\* C7 witness: the tagged asset with quantity 8 and reorderPoint 10, classified.
TaggedEightOfTenClassified ==
    /\ Classified
    /\ Entity.data.criticalLevel = Critical
    /\ Entity.data.quantity = Num(8)
    /\ Entity.data.reorderPoint = Num(10)
    /\ last.lowStock
    /\ last.critical

\* The documented ranges of the base fields, stated on the characters and numbers.
NameInRange(v) ==
    /\ IsStr(v)
    /\ \E i \in 1..Len(v.s) : v.s[i] \notin WhiteSpace
    /\ Len(v.s) <= 100
QuantityInRange(v) == IsNum(v) /\ v.h % 2 = 0 /\ 0 <= v.h /\ v.h <= 2 * 999999
SerialInShape(v) ==
    /\ IsStr(v)
    /\ Len(v.s) = 9
    /\ <<v.s[1], v.s[2]>> \in UpperCase \X UpperCase
    /\ v.s[3] = "-"
    /\ {v.s[i] : i \in 4..9} \subseteq Digit
IsNegative(v) == IsNum(v) /\ v.h < 0
BaseFieldsInRange(d) ==
    /\ NameInRange(d.name)
    /\ QuantityInRange(d.quantity)
    /\ SerialInShape(d.serialNumber)
    /\ ~IsNegative(d.reorderPoint)

ErrorsOf(e, field) ==
    IF \E i \in 1..Len(e.errors) : e.errors[i].field = field
    THEN (CHOOSE x \in {e.errors[i] : i \in 1..Len(e.errors)} : x.field = field).msgs
    ELSE <<>>
Reports(e, field, message) ==
    \E i \in 1..Len(ErrorsOf(e, field)) : ErrorsOf(e, field)[i] = message

\* C8: Asset.validate() returns true, with hasErrors() then false, exactly when
\* name, quantity, serialNumber and reorderPoint are in their ranges; a negative
\* quantity or reorderPoint is reported and the stored value is left as it was.
AssetValidIffFieldsInRange ==
    (Validated /\ Entity.cls = "Asset") =>
        /\ last.result <=> BaseFieldsInRange(Entity.data)
        /\ HasErrors(Entity) <=> ~last.result
        /\ IsNegative(Entity.data.quantity)
              => Reports(Entity, "quantity", "Quantity cannot be negative")
        /\ IsNegative(Entity.data.reorderPoint)
              => Reports(Entity, "reorderPoint", "Reorder point cannot be negative")
        /\ Entity.data = last.before

\* C8 witness: an Asset with a 100-character name validated to true, and
\* (separately reachable) one with a negative quantity validated to false.
AssetValidatedAtNameLimit ==
    /\ Validated
    /\ Entity.cls = "Asset"
    /\ Len(Entity.data.name.s) = 100
    /\ Entity.data.quantity = Num(999999)
    /\ last.result

\* The value a schema field is looked up to: own field first, else custom map.
LookedUp(e, key) ==
    IF key \in DOMAIN e.data THEN e.data[key]
    ELSE IF key \in DOMAIN e.customFields THEN e.customFields[key] ELSE Undef
RequiredKeys(e) ==
    {ConfigFields(e.config)[i].key :
        i \in {j \in 1..Len(ConfigFields(e.config)) : ConfigFields(e.config)[j].required}}
Present(v) == v # Undef /\ v # Null /\ v # Str(<<>>)

\* C9: HospitalAsset.validate() returns true exactly when the base fields are
\* in range and every required schema field (own field, else custom field) is
\* present; a missing required custom field has an error entry under its key.
HospitalValidIffBaseAndRequired ==
    (Validated /\ Entity.cls = "HospitalAsset") =>
        /\ last.result <=>
              /\ BaseFieldsInRange(Entity.data)
              /\ \A k \in RequiredKeys(Entity) : Present(LookedUp(Entity, k))
        /\ \A k \in RequiredKeys(Entity) :
              (k \notin DOMAIN Entity.data /\ ~Present(LookedUp(Entity, k)))
                  => ErrorsOf(Entity, k) # <<>>

\* C9 witness: base fields in range, the required custom field missing, and
\* validate() returned false with an entry under that key.
RequiredCustomFieldMissing ==
    /\ Validated
    /\ Entity.cls = "HospitalAsset"
    /\ BaseFieldsInRange(Entity.data)
    /\ Entity.data.category = Cardiology
    /\ "requiredCustom" \in RequiredKeys(Entity)
    /\ "requiredCustom" \notin DOMAIN Entity.customFields
    /\ ~last.result
    /\ ErrorsOf(Entity, "requiredCustom") = <<"Required Custom is required">>

\* C27: for a HospitalAsset constructed with a purchasePrice p,
\* getCustomField('purchasePrice') is p, and the typed purchasePrice field and
\* the custom-fields entry stay equal after any later setCustomField, so the
\* price totalValue reads and the serialized purchasePrice agree.
PurchasePriceStaysInSync ==
    (Entity.cls = "HospitalAsset" /\ Truthy(Get(Entity.data, "purchasePrice"))) =>
        /\ GetCustomField(Entity, "purchasePrice") = Entity.data.purchasePrice
        /\ OrElse(GetCustomField(Entity, "purchasePrice"), Num(0))
              = Serialize(Entity).purchasePrice

(***************************************************************************)
(* Claims on the store (Spec).                                             *)
(***************************************************************************)
\* C1: createAsset with an entity that fails validate() sets error to a
\* non-empty message (the store's own "Validation failed: ...", not the
\* repository's rejection), does not call repository.save, and leaves the
\* working set, the repository map and the durable snapshot as they were.
InvalidCreateLeavesStoreAlone ==
    [][(last'.op = "createAsset" /\ ~ValidateResult(heap[last'.ref])) =>
          /\ error'.t = "str"
          /\ error'.s # <<>>
          /\ Head(error'.s) = "Validation failed: "
          /\ ~last'.saveCalled
          /\ assets' = assets
          /\ storage' = storage
          /\ localStorage' = localStorage]_vars

InvalidCreateRefused ==
    /\ last.op = "createAsset"
    /\ ~last.saveCalled
    /\ ~ValidateResult(heap[last.ref])
    /\ error # Null
    /\ assets # <<>>
    /\ localStorage # Null

Indices == 1..Len(assets)
Entry(i) == heap[assets[i]]
Price(i) ==
    LET p == GetCustomField(Entry(i), "purchasePrice")
    IN  IF IsNum(p) THEN p.h \div 2 ELSE 0
RECURSIVE SumOfValues(_)
SumOfValues(S) ==
    IF S = {} THEN 0
    ELSE LET i == CHOOSE x \in S : TRUE
         IN  (Entry(i).data.quantity.h \div 2) * Price(i) + SumOfValues(S \ {i})

InvalidUpdateKeepsMutation ==
    [][last'.op = "updateAsset" /\ last'.found /\ ~last'.saved =>
          LET ref == StorageGet(storage, last'.id)
          IN  /\ ~ValidateResult(heap'[ref])
              /\ StorageGet(storage', last'.id) = ref
              /\ error' # Null
              /\ error'.s[1] = "Validation failed: "
              /\ storage' = storage
              /\ localStorage' = localStorage
              /\ assets' = assets
              /\ \E updates \in UpdatePool :
                    /\ \A i \in 1..Len(updates) :
                          LET key == updates[i][1]
                          IN  Len(key) = 1 /\ key[1] \in DOMAIN heap[ref].data =>
                                 heap'[ref].data[key[1]] = updates[i][2]
                    /\ \E i \in 1..Len(updates) :
                          /\ Len(updates[i][1]) = 1
                          /\ updates[i][1][1] \in DOMAIN heap[ref].data
              /\ \A r \in DOMAIN heap : r # ref => heap'[r] = heap[r]]_vars

RejectedQuantityKept ==
    /\ last.op = "updateAsset"
    /\ last.found
    /\ ~last.saved
    /\ error = Str(<<"Validation failed: ", "quantity", ": ", "Quantity cannot be negative">>)
    /\ heap[StorageGet(storage, last.id)].data.quantity = Num(-5)
    /\ \E i \in 1..Len(assets) : assets[i] = StorageGet(storage, last.id)
    /\ \E i \in 1..Len(localStorage.items) :
          /\ localStorage.items[i].id = last.id
          /\ localStorage.items[i].data.quantity = Num(2)

\* C15: updateAsset(id, updates) for an id the repository does not hold sets
\* error to 'Asset with ID <id> not found' and changes nothing else: the working
\* set, every entity, the Map and the durable snapshot are unchanged and
\* repository.save is not called.
UnknownIdUpdateChangesNothing ==
    [][last'.op = "updateAsset" /\ last'.id \notin StorageKeys(storage) =>
          /\ ~last'.found
          /\ ~last'.saved
          /\ error' = Str(<<"Asset with ID ">> \o last'.id.s \o <<" not found">>)
          /\ UNCHANGED <<heap, storage, localStorage, assets>>
          /\ UNCHANGED <<activeFilter, searchQuery, selectedCategory, sortBy, sortDirection>>
          /\ loading' = FALSE]_vars

UnknownIdUpdateRefused ==
    /\ last.op = "updateAsset"
    /\ ~last.found
    /\ last.id = NoSuchId
    /\ error = Str(<<"Asset with ID ">> \o NoSuchId.s \o <<" not found">>)
    /\ Len(assets) = 2
    /\ Len(storage) = 2

\* C29: loadAssets generates and saves sample assets exactly when the
\* repository returns an empty collection, and fetches again; when the
\* repository holds an asset it saves nothing; in both cases a successful
\* loadAssets leaves the working set equal to the repository's full contents
\* and error null.
LoadAssetsSeedsOnlyAnEmptyRepository ==
    [][last'.op = "loadAssets" =>
         /\ last'.generated = (Len(storage) = 0)
         /\ Len(storage) = 0 =>
               /\ Len(storage') = SampleCount
               /\ \A i \in 1..Len(storage') :
                     /\ heap[storage'[i].ref] = NoEntity
                     /\ heap'[storage'[i].ref].data.id = storage'[i].key
                     /\ ~heap'[storage'[i].ref].isDirty
               /\ localStorage' = Snapshot(storage', heap')
         /\ Len(storage) > 0 =>
               /\ storage' = storage
               /\ heap' = heap
               /\ localStorage' = localStorage
         /\ last'.ok =>
               /\ assets' = [i \in 1..Len(storage') |-> storage'[i].ref]
               /\ error' = Null
               /\ ~loading']_vars

\* loadAssets over a repository that held one created asset: nothing was
\* generated and the working set is that asset, once.
LoadedOverDuplicatedWorkingSet ==
    /\ last.op = "loadAssets"
    /\ last.ok
    /\ ~last.generated
    /\ Len(storage) = 1
    /\ assets = <<storage[1].ref>>
    /\ heap[assets[1]].data.name = ECG
    /\ error = Null

SuccessfulSaveUpserts ==
    [][(last'.op = "save" /\ last'.ok) =>
          LET ref == last'.ref
              id == heap[ref].data.id
              found == StorageGet(storage', id)
          IN  /\ ValidateResult(heap[ref])
              /\ found # 0
              /\ heap'[found].data = heap[ref].data
              /\ heap'[found].customFields = heap[ref].customFields
              /\ ~heap'[ref].isDirty
              /\ Len(storage') = IF StorageHas(storage, id) THEN Len(storage)
                                 ELSE Len(storage) + 1]_vars

SavedOverAnotherEntity ==
    /\ last.op = "save"
    /\ last.ok
    /\ last.existed
    /\ StorageGet(storage, heap[last.ref].data.id) = last.ref
    /\ \E r \in RepoRefs \ {last.ref} :
          heap[r] # NoEntity /\ heap[r].data.id = heap[last.ref].data.id

\* C4: delete(id) returns true exactly when an entry with that id existed; then
\* only that entry is removed (findById(id) is null, count() drops by one) and
\* the snapshot is rewritten (a write that fails leaves the previous one); for an
\* id that does not exist it returns false and count(), the map and the
\* snapshot are unchanged.
DeleteRemovesExactlyTheEntry ==
    [][last'.op = "delete" =>
          LET id == last'.id
          IN  /\ last'.result = StorageHas(storage, id)
              /\ last'.result =>
                    /\ StorageGet(storage', id) = 0
                    /\ Len(storage') = Len(storage) - 1
                    /\ \A k \in StorageKeys(storage) \ {id} :
                          StorageGet(storage', k) = StorageGet(storage, k)
                    /\ last'.wrote => localStorage' = Snapshot(storage', heap')
                    /\ ~last'.wrote => localStorage' = localStorage
              /\ ~last'.result =>
                    /\ storage' = storage
                    /\ Len(storage') = Len(storage)
                    /\ localStorage' = localStorage]_vars

OneOfTwoEntriesDeleted ==
    /\ last.op = "delete"
    /\ last.result
    /\ last.wrote
    /\ Len(storage) = 1
    /\ ~StorageHas(storage, last.id)
    /\ localStorage = Snapshot(storage, heap)

\* C19: a repository constructed while the durable store holds a snapshot
\* written by earlier successful saves loads it: findAll/findById of the new
\* instance return the entities saved before, with the same ids and field values.
NewRepositoryLoadsSnapshot ==
    [][last'.op = "newRepository" /\ localStorage # Null =>
          /\ Len(storage') = Len(localStorage.items)
          /\ \A i \in 1..Len(storage') :
                /\ storage'[i].key = localStorage.items[i].id
                /\ JsonObject(Serialize(heap'[storage'[i].ref])) = localStorage.items[i].data]_vars

(***************************************************************************)
(* Claims on the filtered view (SpecView).                                 *)
(***************************************************************************)
Filtered ==
    FilteredAssets(assets, heap, activeFilter, searchQuery, selectedCategory,
                   sortBy, sortDirection)
Occurrences(seq, x) == Cardinality({i \in 1..Len(seq) : seq[i] = x})

PassesActiveFilter(e) ==
    /\ activeFilter = "critical" => IsCritical(e)
    /\ activeFilter = "lowStock" => IsLowStock(e)
QueryWithin(text) ==
    \E i \in 1..(Len(text) + 1), j \in 0..Len(text) :
       ToLowerCase(SubSeq(text, i, j)) = ToLowerCase(searchQuery.s)
PassesSearch(e) ==
    searchQuery # Str(<<>>) =>
       \/ QueryWithin(e.data.name.s)
       \/ QueryWithin(e.data.serialNumber.s)
       \/ QueryWithin(e.data.manufacturer.s)
CategorySet == selectedCategory # Null /\ selectedCategory # Str(<<>>)
PassesCategory(e) == CategorySet => e.data.category = selectedCategory
SatisfiesCriteria(e) == PassesActiveFilter(e) /\ PassesSearch(e) /\ PassesCategory(e)

\* C11: filteredAssets contains exactly the working-set assets that satisfy
\* all active criteria (the activeFilter predicate, the lower-cased query within
\* the lower-cased name, serialNumber or manufacturer when the query is not
\* empty, the category when one is set): each matching entry as often as the
\* working set holds it, no other entry at all.
FilteredAreExactlyTheMatching ==
    /\ \A r \in DOMAIN heap :
          Occurrences(Filtered, r) =
             IF SatisfiesCriteria(heap[r]) THEN Occurrences(assets, r) ELSE 0
    /\ \A i \in 1..Len(Filtered) : Filtered[i] \in DOMAIN heap

FilteredByEveryCriterion ==
    /\ activeFilter = "critical"
    /\ searchQuery = Str(<<"E", "C">>)
    /\ selectedCategory = Cardiology
    /\ Len(assets) = 2
    /\ Len(Filtered) = 1
    /\ heap[Filtered[1]].data.name = Str(<<"e", "c", "g">>)

\* C16: repository search(query) returns exactly the stored assets for which
\* the lower-cased query is a substring of the lower-cased name, manufacturer,
\* serialNumber or category, whatever the letter case of the query or the
\* fields: each such asset once, no other.
SearchWithin(text, query) ==
    \E i \in 1..(Len(text) + 1), j \in 0..Len(text) :
       ToLowerCase(SubSeq(text, i, j)) = ToLowerCase(query)
SearchReturnsExactlyTheMatching ==
    last.op = "search" =>
       \A r \in DOMAIN heap :
          Occurrences(last.result, r) =
             IF /\ \E i \in 1..Len(storage) : storage[i].ref = r
                /\ \E field \in {"name", "manufacturer", "serialNumber", "category"} :
                      SearchWithin(heap[r].data[field].s, last.query.s)
             THEN 1 ELSE 0

FoundByCategoryInUpperCase ==
    /\ last.op = "search"
    /\ last.query = Str(<<"R", "A", "D">>)
    /\ Len(storage) = 2
    /\ Len(last.result) = 1
    /\ heap[last.result[1]].data.category = Radiology
    /\ heap[last.result[1]].data.name = Xray

\* C23: filteredAssets is ordered by the sortBy field, non-decreasing for 'asc'
\* and non-increasing for 'desc'; entries with equal sort keys keep the relative
\* order they have in the working set, in both directions; and reading it
\* changes neither the working set nor an entity.
SortKey(r) == Get(heap[r].data, sortBy)
KeyBefore(a, b) == IF IsStr(a) THEN StrLt(a.s, b.s) ELSE a.h < b.h
SameSortKey(r, x) == SortKey(r) = SortKey(x)
FilteredIsSortedCopy ==
    /\ [](/\ \A i, j \in 1..Len(Filtered) :
               i < j => IF sortDirection = "asc"
                        THEN ~KeyBefore(SortKey(Filtered[j]), SortKey(Filtered[i]))
                        ELSE ~KeyBefore(SortKey(Filtered[i]), SortKey(Filtered[j]))
          /\ \A x \in ViewRefs :
               SelectSeq(Filtered, LAMBDA r : SameSortKey(r, x))
                 = SelectSeq(SelectSeq(assets, LAMBDA r : SatisfiesCriteria(heap[r])),
                             LAMBDA r : SameSortKey(r, x)))
    /\ [][last'.op = "filteredAssets" => assets' = assets /\ heap' = heap]_vars

\* Read in descending order of category: the two Cardiology assets stand as the
\* working set has them.
EqualKeysKeepOrderDescending ==
    /\ last.op = "filteredAssets"
    /\ sortBy = "category"
    /\ sortDirection = "desc"
    /\ assets = <<3, 1>>
    /\ Filtered = <<3, 1>>

\* C28: clearSearch resets searchQuery to '' and selectedCategory to null and
\* leaves activeFilter as it is; clearFilters resets activeFilter to 'all' as
\* well; these and setSearchQuery, setCategory and setActiveFilter change
\* their own filter fields only, never assets, loading, error, the sort
\* settings, an entity or the repository.
FilterSetters == {"setSearchQuery", "setCategory", "setActiveFilter", "clearFilters",
                  "clearSearch"}
SettersChangeOnlyTheirFilters ==
    [][last'.op \in FilterSetters =>
         /\ UNCHANGED <<assets, loading, error, sortBy, sortDirection,
                        heap, storage, localStorage>>
         /\ last'.op = "clearSearch" =>
               /\ searchQuery' = Str(<<>>)
               /\ selectedCategory' = Null
               /\ activeFilter' = activeFilter
         /\ last'.op = "clearFilters" =>
               /\ searchQuery' = Str(<<>>)
               /\ selectedCategory' = Null
               /\ activeFilter' = "all"
         /\ last'.op = "setSearchQuery" =>
               /\ searchQuery' = last'.query
               /\ UNCHANGED <<selectedCategory, activeFilter>>
         /\ last'.op = "setCategory" =>
               /\ selectedCategory' = last'.category
               /\ UNCHANGED <<searchQuery, activeFilter>>
         /\ last'.op = "setActiveFilter" =>
               /\ activeFilter' = last'.filter
               /\ UNCHANGED <<searchQuery, selectedCategory>>]_vars

\* clearSearch over a working set of two assets listed by descending quantity
\* under the low-stock filter: the filter and the sort settings stand.
SearchClearedFilterKept ==
    /\ last.op = "clearSearch"
    /\ searchQuery = Str(<<>>)
    /\ selectedCategory = Null
    /\ activeFilter = "lowStock"
    /\ sortBy = "quantity"
    /\ sortDirection = "desc"
    /\ Len(assets) = 2

(***************************************************************************)
(* Claims on the store with a rejecting repository (SpecFaults).           *)
(***************************************************************************)
\* C12: when loadAssets fails (the repository fetch or a sample-data save
\* rejects), error holds the failure's message (the fallback 'Failed to load
\* assets' when the rejection is not an Error), the working set is empty
\* whatever it held before, and loading is false when the call completes.
LoadFailureResetsWorkingSet ==
    [][last'.op = "loadAssets" /\ ~last'.ok =>
          /\ assets' = <<>>
          /\ loading' = FALSE
          /\ error' # Null
          /\ "with" \in DOMAIN last' =>
                error' = IF last'.with.instanceOfError THEN last'.with.message
                         ELSE Str(<<"Failed to load assets">>)]_vars

LoadFailedOverWorkingSet ==
    /\ last.op = "loadAssets"
    /\ ~last.ok
    /\ last.rejected = "findAll"
    /\ last.held = 2
    /\ assets = <<>>
    /\ error = Str(<<"Save failed">>)
    /\ ~loading

\* C17: no store operation (loadAssets, createAsset, updateAsset, deleteAsset;
\* refreshData is loadAssets) propagates an exception to its caller: when a
\* repository call rejects, the operation completes normally with loading false
\* and error holding the failure's message, or the operation's generic fallback
\* when the rejection is not an Error.
RejectionsAreCaught ==
    [][("rejected" \in DOMAIN last') =>
          /\ ~last'.propagated
          /\ loading' = FALSE
          /\ error' = IF last'.with.instanceOfError
                      THEN last'.with.message
                      ELSE CASE last'.op = "loadAssets" -> Str(<<"Failed to load assets">>)
                             [] last'.op = "createAsset" -> Str(<<"Failed to create asset">>)
                             [] last'.op = "updateAsset" -> Str(<<"Failed to update asset">>)
                             [] last'.op = "deleteAsset" -> Str(<<"Failed to delete asset">>)]_vars

UpdateSaveRejectedWithNonError ==
    /\ last.op = "updateAsset"
    /\ "rejected" \in DOMAIN last
    /\ last.rejected = "save"
    /\ ~last.with.instanceOfError
    /\ ~last.propagated
    /\ error = Str(<<"Failed to update asset">>)
    /\ ~loading
    /\ Len(assets) = 2

(***************************************************************************)
(* Claims on identity (SpecIds).                                           *)
(***************************************************************************)
\* C18: after any sequence of entity, repository and store operations
\* (updateAsset with arbitrary update keys included), an entity's id is the id
\* it had at construction, every repository entry is keyed by its entity's
\* current id, and no entity is stored under two ids.
IdsAreImmutableAndKeysCurrent ==
    [][/\ \A r \in DOMAIN heap :
             heap[r] # NoEntity => heap'[r].data.id = heap[r].data.id
       /\ \A i \in 1..Len(storage') : heap'[storage'[i].ref].data.id = storage'[i].key
       /\ \A i, j \in 1..Len(storage') :
             i # j => storage'[i].ref # storage'[j].ref]_vars

(***************************************************************************)
(* Claims on serialization (SpecSerial).                                   *)
(***************************************************************************)
\* C20: for every Asset or HospitalAsset a, the entity constructed from
\* a.serialize() has equal field values, each date field (lastMaintenance,
\* expiryDate, warrantyExpiry, lastCalibration) again a timestamp for the same
\* instant, and serializes to the same record.
RoundTripReproducesFields ==
    /\ heap[2] # NoEntity =>
          /\ heap[2].data = heap[1].data
          /\ heap[2].customFields = heap[1].customFields
    /\ last.op = "serialize" =>
          /\ ~last.threw
          /\ last.record = Serialize(heap[1])

(***************************************************************************)
(* Claims on overlapping store calls (SpecAsync).                          *)
(***************************************************************************)
\* C21: every store operation sets loading to true on entry and to false on
\* every exit path (success, early return, caught failure); so, whatever the
\* interleaving, loading is false whenever no store operation is in flight.
LoadingFalseWhenNoCallInFlight ==
    /\ (calls = <<>> => ~loading)
    /\ [][/\ last'.step = "begin" => loading'
          /\ last'.step = "return" => ~loading'
          /\ calls' = <<>> => ~loading']_vars

\* A deleteAsset of an id that is not stored has returned through its early
\* return after a createAsset had succeeded: no call is in flight.
BothCallsReturned ==
    /\ last.op = "deleteAsset"
    /\ last.step = "return"
    /\ error = DeleteFailedMessage
    /\ calls = <<>>
    /\ ~loading
    /\ Len(assets) = 1

\* C22: overlapping store operations are not serialized and the flags are
\* last-caller-wins: a call that returns while another is still suspended
\* leaves loading false, and a call that begins resets the error another
\* call has recorded.
FlagsAreLastCallerWins ==
    [][/\ (last'.step = "return" /\ calls' # <<>>) => ~loading'
       /\ last'.step = "begin" =>
             /\ Len(calls') = Len(calls) + 1
             /\ loading'
             /\ error' = Null
             /\ last'.cleared = error]_vars

\* A call began while another was suspended, loading was false and an error
\* was recorded: the error is gone and both calls are in flight.
ErrorClearedWhileCallSuspended ==
    /\ last.step = "begin"
    /\ last.cleared # Null
    /\ last.idle
    /\ error = Null
    /\ Len(calls) = 2

(***************************************************************************)
(* Claims on bulkSave (SpecBulk).                                          *)
(***************************************************************************)
\* C24: bulkSave saves the entities in list order and is not atomic: if the
\* k-th entity fails validation the call rejects, the k-1 entities before it
\* are stored (and persisted where the write went through), and no entity
\* after it is stored by the call; without an invalid entity all are stored.
BulkSaveStoresUpToFirstInvalid ==
    [][last'.op = "bulkSave" =>
         LET models == last'.models
             invalid == {i \in 1..Len(models) : ~ValidateResult(heap[models[i]])}
             saved == IF invalid = {} THEN Len(models)
                      ELSE (CHOOSE k \in invalid : \A j \in invalid : k <= j) - 1
             idOf(i) == heap[models[i]].data.id
             latest(id) == CHOOSE i \in 1..saved :
                              /\ idOf(i) = id
                              /\ \A j \in 1..saved : idOf(j) = id => j <= i
         IN  /\ last'.ok = (invalid = {})
             /\ last'.saved = saved
             /\ StorageKeys(storage') = StorageKeys(storage) \cup {idOf(i) : i \in 1..saved}
             /\ \A id \in StorageKeys(storage') :
                   StorageGet(storage', id) =
                      IF \E i \in 1..saved : idOf(i) = id THEN models[latest(id)]
                      ELSE StorageGet(storage, id)
             /\ \A i \in 1..Len(models) : heap'[models[i]].data = heap[models[i]].data
             /\ saved = 0 => localStorage' = localStorage
             /\ (saved > 0 /\ last'.wrote) => localStorage' = Snapshot(storage', heap')
    ]_vars

\* bulkSave of three entities whose second had its serial number emptied: the
\* call rejected, the first entity is stored and written, the third is not.
SecondOfThreeInvalid ==
    /\ last.op = "bulkSave"
    /\ last.models = <<1, 2, 3>>
    /\ ~last.ok
    /\ last.saved = 1
    /\ last.message = Str(<<"Model validation failed: ", "Serial number is required">>)
    /\ storage = <<[key |-> A1, ref |-> 1]>>
    /\ localStorage = Snapshot(storage, heap)

(***************************************************************************)
(* Claims on the durable snapshot (SpecDurable, SpecRepo).                 *)
(***************************************************************************)
Stored(st, hp) == [i \in 1..Len(st) |-> [id |-> st[i].key, data |-> Serialize(hp[st[i].ref])]]
SnapshotIsTheCollection ==
    IF localStorage = Null THEN storage = <<>>
    ELSE /\ Len(localStorage.items) = Len(storage)
         /\ \A i \in 1..Len(storage) :
               /\ localStorage.items[i].id = storage[i].key
               /\ localStorage.items[i].data = JsonObject(Stored(storage, heap)[i].data)

\* C26: when the durable write fails during save or delete the operation
\* still completes without error and the in-memory change is kept (findById
\* returns the saved entity, the deleted one is gone) while the snapshot stays
\* as it was; the next save or delete whose write goes through leaves a
\* snapshot of the whole in-memory collection.
FailedWriteKeepsInMemoryChange ==
    [][/\ (last'.op = "save" /\ ValidateResult(heap[last'.ref]) /\ ~last'.wrote) =>
             /\ last'.ok
             /\ last'.message = Null
             /\ StorageGet(storage', heap[last'.ref].data.id) = last'.ref
             /\ heap'[last'.ref].data = heap[last'.ref].data
             /\ localStorage' = localStorage
       /\ (last'.op = "delete" /\ StorageHas(storage, last'.id) /\ ~last'.wrote) =>
             /\ last'.result
             /\ ~StorageHas(storage', last'.id)
             /\ localStorage' = localStorage
       /\ (last'.op \in {"save", "delete"} /\ last'.wrote) =>
             /\ localStorage' # Null
             /\ SnapshotIsTheCollection'
    ]_vars

\* The write of a save failed: the entity is found under its id, and the
\* snapshot is the one written before, which does not hold it.
SavedInMemoryOnly ==
    /\ last.op = "save"
    /\ last.ok
    /\ ~last.wrote
    /\ StorageGet(storage, heap[last.ref].data.id) = last.ref
    /\ Len(storage) = 2
    /\ localStorage # Null
    /\ Len(localStorage.items) = 1

\* C25 as stated: while no durable write fails, after every completed
\* repository or store operation the durable snapshot is the serialization of
\* the in-memory collection, and after deleteAll the entry is absent, the
\* count is 0 and the result is the count before.
SnapshotAlwaysTheCollection ==
    /\ SnapshotIsTheCollection
    /\ last.op = "deleteAll" => localStorage = Null /\ Len(storage) = 0

\* C25: while no durable write fails, after every operation that saved or
\* deleted an entity the snapshot is the serialization of the in-memory
\* collection; an operation that returns without saving leaves the snapshot
\* as it was; after deleteAll the entry is absent, the count is 0 and the
\* result is the count before.
WroteStep ==
    \/ last'.op = "createAsset" /\ last'.saved
    \/ last'.op = "updateAsset" /\ last'.saved
    \/ last'.op = "deleteAsset" /\ last'.result
    \/ last'.op = "loadAssets" /\ last'.generated /\ last'.ok
SnapshotFollowsEveryWrite ==
    [][/\ WroteStep => SnapshotIsTheCollection'
       /\ (~WroteStep /\ last'.op # "deleteAll") => localStorage' = localStorage
       /\ last'.op = "deleteAll" =>
             /\ localStorage' = Null
             /\ Len(storage') = 0
             /\ last'.result = Len(storage)
             /\ heap' = heap]_vars

\* deleteAll returned 2 over a repository that held two saved assets.
DeleteAllOverTwoAssets ==
    /\ last.op = "deleteAll"
    /\ last.result = 2
    /\ storage = <<>>
    /\ localStorage = Null
    /\ Len(assets) = 2

(***************************************************************************)
(* Claims on the working set after loadAssets (SpecLoaded).                *)
(***************************************************************************)
\* C30: after a successful loadAssets and any sequence of createAsset,
\* updateAsset and deleteAsset calls, one at a time (createAsset with an id
\* that is stored already included), the working set holds exactly one entry
\* per id stored in the repository: the two id sets are equal and no id
\* occurs twice in the working set.
WorkingSetMirrorsRepository ==
    /\ {heap[assets[i]].data.id : i \in 1..Len(assets)} = StorageKeys(storage)
    /\ \A i, j \in 1..Len(assets) :
          i # j => heap[assets[i]].data.id # heap[assets[j]].data.id

====
